---- MODULE Spec2Model ----
(***************************************************************************)
(* Order-processing saga of the trade platform: the orchestrator's three   *)
(* workflows (retail/Standard, Institutional, Algorithmic) composed with   *)
(* the trade, pricing and risk services they call.                         *)
(*                                                                         *)
(* Units.  Money is kept in integer cents (prices, PnL, notional), risk    *)
(* scores in thousandths of a point (the services round to 2 and 3         *)
(* decimals), multipliers as integer numerators over 10 and 100.           *)
(***************************************************************************)
EXTENDS Integers, Sequences, FiniteSets, TLC

\* Python's None / a present value
None == <<>>
Some(x) == <<x>>
Get(s) == s[1]
IsSome(s) == s # <<>>

Abs(x) == IF x < 0 THEN -x ELSE x

\* dict.get(key, default) and dict.get(key)
GetOr(d, key, default) == IF key \in DOMAIN d THEN d[key] ELSE default
DictGet(d, key) == IF key \in DOMAIN d THEN Some(d[key]) ELSE None

(***************************************************************************)
(* Bounds of the model and the inputs it enumerates                        *)
(***************************************************************************)
\* lot size an interface-level validation may normalise to, besides 1
RoundLot == 10

Profiles == {"Standard", "Institutional", "Algorithmic"}
OrderTypes == {"BUY", "SELL"}
SupportedSymbols == {"AAPL", "GOOGL", "MSFT", "AMZN", "TSLA", "META", "NVDA"}
\* symbols of the orders the model places: supported ones, one unknown to
\* every table (XYZ) and one whose market data feed is restricted (GME)
OrderSymbols == {"AAPL", "MSFT", "TSLA", "NVDA", "XYZ", "GME"}
OrderQuantities == {0, 10, 50, 100, 101, 105, 250, 501, 1000, 1100, 3000}
\* moves of the market price around the base price, in cents (random.uniform
\* yields any move within 2% of the base; see get_market_price)
\* quantities of Algorithmic orders at the limit of the quick risk score
AlgoBreakerQuantities == {10000, 10001}
PriceMoves == {-200, 0, 440, 640}
LotSizes == {1, RoundLot}
\* the leaf capabilities (validation, pricing) are external collaborators of
\* the saga: each is served by the repository's own service or, when named in
\* a deployment, by a stand-in that only honours the interface
\* validate(order) -> {valid, reason, normalized_quantity},
\* price(order) -> {price, ..., estimated_pnl}
Deployments == {{}, {"validation"}, {"validation", "pricing"}}
\* what a stand-in pricing capability quotes: moves of the price around the
\* base price beyond the simulated 2% band, and an error of its PnL, in cents
StandInMoves == {-17550, -5000, -4280, -1550, 0}
PnlSkews == {0, 10, 11}

(***************************************************************************)
(* Trade service                                                           *)
(***************************************************************************)
\* routes the repository's trade service registers
RepoTradeRoutes == {"POST /trades/validate", "POST /trades/execute",
                    "GET /trades/{order_id}", "GET /trades"}
\* the validation routes the Institutional and Algorithmic workflows call
ProfileValidateRoute(profile) ==
  CASE profile = "Standard" -> "POST /trades/validate"
    [] profile = "Institutional" -> "POST /trades/validate-institutional"
    [] profile = "Algorithmic" -> "POST /trades/validate-algo"

\* get_symbol_metadata: lot_size and max_order of the symbol registry
HasMetadata(symbol) == symbol \in SupportedSymbols
LotSizeOf(symbol) == 1
MaxOrderOf(symbol) ==
  CASE symbol \in {"AAPL", "MSFT"} -> 10000
    [] symbol = "TSLA" -> 3000
    [] OTHER -> 5000

Holdings(symbol) ==
  CASE symbol = "AAPL" -> 500
    [] symbol = "GOOGL" -> 200
    [] symbol = "MSFT" -> 800
    [] symbol = "TSLA" -> 300
    [] symbol = "NVDA" -> 300
    [] OTHER -> 0

\* validate_account_balance: price in cents, balance $500K
validate_account_balance(quantity, price, symbol, order_type) ==
  IF order_type = "BUY"
  THEN IF quantity * price > 50000000
       THEN [ok |-> FALSE, msg |-> "Insufficient buying power"]
       ELSE [ok |-> TRUE, msg |-> ""]
  ELSE IF Holdings(symbol) < quantity
       THEN [ok |-> FALSE, msg |-> "Insufficient shares"]
       ELSE [ok |-> TRUE, msg |-> ""]

\* rounding down to a multiple of the lot size
NormalizeToLot(quantity, lot) ==
  IF quantity % lot # 0 THEN (quantity \div lot) * lot ELSE quantity

\* rounding to the round lot whatever the registry says
normalize_quantity_to_lot_size_round(quantity, symbol) ==
  NormalizeToLot(quantity, RoundLot)

normalize_quantity_to_lot_size(quantity, symbol) ==
  IF ~HasMetadata(symbol) THEN quantity
  ELSE NormalizeToLot(quantity, LotSizeOf(symbol))

check_order_limits(quantity, symbol) ==
  IF HasMetadata(symbol) /\ quantity > MaxOrderOf(symbol)
  THEN [ok |-> FALSE, msg |-> "Order quantity exceeds maximum allowed for symbol"]
  ELSE IF quantity > 10000
  THEN [ok |-> FALSE, msg |-> "Order quantity exceeds global maximum limit"]
  ELSE [ok |-> TRUE, msg |-> ""]

ValidationResponse(valid, reason, nq) ==
  [valid |-> valid, reason |-> reason, normalized_quantity |-> nq]

\* POST /trades/validate; market_open is is_market_open() at the time of the call
validate_trade(symbol, quantity, order_type, market_open) ==
  IF ~HasMetadata(symbol)
  THEN ValidationResponse(FALSE, "Symbol is not supported for trading", quantity)
  ELSE IF ~market_open
  THEN ValidationResponse(FALSE, "Market is currently closed", quantity)
  ELSE IF quantity <= 0
  THEN ValidationResponse(FALSE, "Quantity must be positive", quantity)
  ELSE LET bal == validate_account_balance(quantity, 17500, symbol, order_type)
           nq == normalize_quantity_to_lot_size(quantity, symbol)
           lim == check_order_limits(nq, symbol)
       IN IF ~bal.ok THEN ValidationResponse(FALSE, bal.msg, quantity)
          ELSE IF ~lim.ok THEN ValidationResponse(FALSE, lim.msg, nq)
          ELSE ValidationResponse(TRUE, "", nq)

\* The validate-institutional and validate-algo operations, as the interface
\* states them: validate(order) -> {valid, reason, normalized_quantity}, the
\* quantity normalised down to a multiple of the lot size.
validate_interface(quantity, valid, lot) ==
  IF valid /\ quantity > 0
  THEN ValidationResponse(TRUE, "", NormalizeToLot(quantity, lot))
  ELSE ValidationResponse(FALSE, "Order failed validation", quantity)

(***************************************************************************)
(* Services answer with an HTTP status and, on 200, a JSON body            *)
(***************************************************************************)
Ok(body) == [status |-> 200, body |-> body]
HttpError(code, kind) == [status |-> code, detail |-> kind]

(***************************************************************************)
(* Pricing & PnL service                                                   *)
(***************************************************************************)
BasePrice(symbol) ==
  CASE symbol = "AAPL" -> 17550
    [] symbol = "GOOGL" -> 14025
    [] symbol = "MSFT" -> 37890
    [] symbol = "AMZN" -> 15275
    [] symbol = "TSLA" -> 24280
    [] symbol = "META" -> 35620
    [] symbol = "NVDA" -> 49560

\* the prices random.uniform(-0.02, 0.02) can produce among the moves modelled
MarketMoves(symbol) ==
  IF symbol \in SupportedSymbols
  THEN {m \in PriceMoves : Abs(m) * 100 <= 2 * BasePrice(symbol)}
  ELSE {0}

\* get_market_price with the variance drawn being move / base price
get_market_price(symbol, move) ==
  IF symbol \in {"GME", "AMC"} THEN [kind |-> "HTTPException", status |-> 503]
  ELSE IF symbol \notin SupportedSymbols THEN [kind |-> "ValueError"]
  ELSE LET price == BasePrice(symbol) + move
       IN \* check_price_range_validity, verify_market_conditions
          IF Abs(price - BasePrice(symbol)) * 100 > 10 * BasePrice(symbol) \/ price <= 0
          THEN [kind |-> "ValueError"]
          ELSE [kind |-> "price", price |-> price]

\* get_cost_basis
get_cost_basis(symbol) ==
  CASE symbol = "AAPL" -> 16500
    [] symbol = "GOOGL" -> 13500
    [] symbol = "MSFT" -> 36000
    [] symbol = "AMZN" -> 14500
    [] symbol = "TSLA" -> 23000
    [] symbol = "META" -> 34000
    [] symbol = "NVDA" -> 47500
    [] OTHER -> 5000

\* calculate_estimated_pnl, in cents
calculate_estimated_pnl(symbol, quantity, price, order_type) ==
  LET price_diff == IF symbol = "MSFT" THEN price - 35000
                    ELSE price - get_cost_basis(symbol)
  IN IF order_type = "BUY" THEN -(price_diff * quantity) ELSE price_diff * quantity

\* audit_commission_rate: rates in basis points of the base amount,
\* the base amount in cents
audit_commission_rate(commission_bp, base_amount) ==
  base_amount < 1 \/ Abs(commission_bp - 50) <= 10

\* calculate_total_cost with validate_cost_breakdown: the commission as a
\* rate in basis points of the base amount (0.5%, plus 2% for large TSLA/NVDA
\* sells); every quote carries its commission as that rate.  The exchange/SEC
\* fee and the total, which no decision of the saga reads, are not carried.
\* fault: no extra fee on large TSLA and NVDA sales
calculate_total_cost_flat(quantity, price, symbol, order_type) ==
  [valid |-> audit_commission_rate(50, quantity * price),
   base_amount |-> quantity * price, commission |-> 50]

calculate_total_cost(quantity, price, symbol, order_type) ==
  LET base == quantity * price
      bp == IF order_type = "SELL" /\ quantity > 200 /\ symbol \in {"TSLA", "NVDA"}
            THEN 50 + 200 ELSE 50
  IN [valid |-> audit_commission_rate(bp, base),
      base_amount |-> base, commission |-> bp]

PricingQuote(symbol, price, pnl, cost) ==
  [symbol |-> symbol, price |-> price, estimated_pnl |-> pnl,
   base_amount |-> cost.base_amount, commission |-> cost.commission]

\* POST /pricing/calculate
calculate_pricing(symbol, quantity, order_type, move) ==
  LET mp == get_market_price(symbol, move)
  IN IF mp.kind = "HTTPException" THEN HttpError(mp.status, "market data feed unavailable")
     ELSE IF mp.kind = "ValueError" THEN HttpError(404, "symbol not found")
     ELSE LET cost == calculate_total_cost(quantity, mp.price, symbol, order_type)
          IN IF ~cost.valid THEN HttpError(500, "Pricing calculation failed")
             ELSE Ok(PricingQuote(symbol, mp.price,
                       calculate_estimated_pnl(symbol, quantity, mp.price, order_type), cost))

\* round(x, 2) of a / b cents
RoundDiv(a, b) == (2 * a + b) \div (2 * b)

\* fault: the tiers start above their thresholds
VolumeDiscount_exclusive(quantity) ==
  IF quantity > 10000 THEN 5 ELSE IF quantity > 5000 THEN 3
  ELSE IF quantity > 1000 THEN 1 ELSE 0

\* apply_volume_discount: discount in thousandths
VolumeDiscount(quantity) ==
  IF quantity >= 10000 THEN 5 ELSE IF quantity >= 5000 THEN 3
  ELSE IF quantity >= 1000 THEN 1 ELSE 0

apply_volume_discount(quantity, base_price) ==
  RoundDiv(base_price * (1000 - VolumeDiscount(quantity)), 1000)

\* POST /pricing/calculate-institutional
calculate_institutional_pricing(symbol, quantity, order_type, move) ==
  LET mp == get_market_price(symbol, move)
  IN IF mp.kind = "HTTPException" THEN HttpError(mp.status, "market data feed unavailable")
     ELSE IF mp.kind = "ValueError" THEN HttpError(500, "Internal Server Error")
     ELSE LET institutional_price == apply_volume_discount(quantity, mp.price)
              base == quantity * institutional_price
              \* 0.1% of the base amount, and 0.01 a share
              commission_amount == RoundDiv(base, 1000)
              fees == quantity
          IN Ok([symbol |-> symbol, price |-> institutional_price,
                 fees |-> fees,
                 total_cost |-> IF order_type = "BUY" THEN base + commission_amount + fees
                                ELSE base - commission_amount - fees,
                 base_price |-> mp.price,
                 volume_discount |-> mp.price - institutional_price,
                 estimated_pnl |-> calculate_estimated_pnl(symbol, quantity,
                                      institutional_price, order_type),
                 base_amount |-> base, commission |-> 10])

\* POST /pricing/algo-fast
calculate_algo_pricing(symbol, quantity, order_type) ==
  LET price == IF symbol \in SupportedSymbols THEN BasePrice(symbol) ELSE 10000
      base == quantity * price
  IN Ok([symbol |-> symbol, price |-> price, estimated_pnl |-> 0,
         base_amount |-> base, commission |-> 1])

\* The price operation as the interface states it: a positive price and an
\* estimated PnL, which follows the sign convention on the canonical cost
\* basis up to the error skew of the collaborator.
price_interface(symbol, quantity, order_type, move, skew) ==
  LET price == IF symbol \in SupportedSymbols THEN BasePrice(symbol) + move ELSE 10000
      diff == price - get_cost_basis(symbol)
      base == quantity * price
  IN Ok([symbol |-> symbol, price |-> price,
         estimated_pnl |-> (IF order_type = "BUY" THEN -(diff * quantity)
                            ELSE diff * quantity) + skew,
         base_amount |-> base, commission |-> 50])

(***************************************************************************)
(* Risk service: scoring engine                                            *)
(***************************************************************************)
\* calculate_volatility_multiplier, in tenths
calculate_volatility_multiplier(symbol) ==
  CASE symbol = "TSLA" -> 25
    [] symbol = "NVDA" -> 20
    [] symbol = "META" -> 18
    [] symbol = "AMZN" -> 15
    [] symbol = "GOOGL" -> 13
    [] symbol \in {"AAPL", "MSFT"} -> 12
    [] OTHER -> 10

\* the multiplier of calculate_sector_risk_adjustment, in hundredths
SectorMultiplier(symbol) ==
  CASE symbol = "TSLA" -> 130
    [] symbol = "NVDA" -> 125
    [] symbol = "META" -> 120
    [] symbol \in {"AAPL", "GOOGL"} -> 110
    [] symbol = "MSFT" -> 105
    [] symbol = "AMZN" -> 115
    [] OTHER -> 100

\* position value in cents
calculate_position_size_impact(position_value) ==
  IF position_value > 10000000 THEN 30
  ELSE IF position_value > 5000000 THEN 20
  ELSE IF position_value > 1000000 THEN 10
  ELSE 5

\* fault: a profit of exactly 10,000 counts as a large profit
calculate_pnl_risk_factor_inclusive(pnl) ==
  IF pnl < -500000 THEN 30
  ELSE IF pnl < -100000 THEN 20
  ELSE IF pnl < 0 THEN 10
  ELSE IF pnl >= 1000000 THEN 15
  ELSE 5

\* pnl in cents
calculate_pnl_risk_factor(pnl) ==
  IF pnl < -500000 THEN 30
  ELSE IF pnl < -100000 THEN 20
  ELSE IF pnl < 0 THEN 10
  ELSE IF pnl > 1000000 THEN 15
  ELSE 5

\* fault: the boundaries of the quantity factor are inclusive
assess_quantity_risk_inclusive(quantity) ==
  IF quantity >= 500 THEN 20
  ELSE IF quantity >= 200 THEN 15
  ELSE IF quantity >= 100 THEN 10
  ELSE 5

assess_quantity_risk(quantity) ==
  IF quantity > 500 THEN 20
  ELSE IF quantity > 200 THEN 15
  ELSE IF quantity > 100 THEN 10
  ELSE 5

Min(a, b) == IF a < b THEN a ELSE b
Max(a, b) == IF a > b THEN a ELSE b

\* fault: the raw score is returned as it is
normalize_risk_score_unclamped(raw_score) == raw_score

\* raw and normalised scores in thousandths of a point
normalize_risk_score(raw_score) == Max(Min(raw_score, 100000), 0)

\* fault: the sector multiplier is not applied
calculate_sector_risk_adjustment_skipped(symbol, base_score) == base_score * 10

\* calculate_sector_risk_adjustment: base_score in hundredths, result in thousandths
calculate_sector_risk_adjustment(symbol, base_score) ==
  (base_score * SectorMultiplier(symbol)) \div 10

\* calculate_risk_score: the final score and the breakdown
calculate_risk_score(symbol, quantity, price, pnl) ==
  LET position_value == quantity * price
      position_risk == calculate_position_size_impact(position_value)
      pnl_risk == calculate_pnl_risk_factor(pnl)
      quantity_risk == assess_quantity_risk(quantity)
      base_risk_score == position_risk + pnl_risk + quantity_risk
      \* hundredths of a point
      risk_after_volatility ==
        base_risk_score * calculate_volatility_multiplier(symbol) * 10
      risk_after_sector == calculate_sector_risk_adjustment(symbol, risk_after_volatility)
      final_risk_score == normalize_risk_score(risk_after_sector)
  IN [score |-> final_risk_score,
      factors |-> [position_value |-> position_value,
                   position_size_risk |-> position_risk,
                   pnl_risk |-> pnl_risk,
                   estimated_pnl |-> pnl,
                   quantity_risk |-> quantity_risk,
                   quantity |-> quantity,
                   base_risk_score |-> base_risk_score,
                   risk_after_volatility |-> risk_after_volatility,
                   risk_after_sector |-> risk_after_sector,
                   total_risk_score |-> final_risk_score]]

\* fault: the boundary scores fall into the lower band
determine_risk_level_exclusive(risk_score) ==
  IF risk_score > 70000 THEN "HIGH"
  ELSE IF risk_score > 40000 THEN "MEDIUM"
  ELSE "LOW"

determine_risk_level(risk_score) ==
  IF risk_score >= 70000 THEN "HIGH"
  ELSE IF risk_score >= 40000 THEN "MEDIUM"
  ELSE "LOW"

\* fault: a notional of exactly the cap is turned down
validate_compliance_rules_inclusive(symbol, quantity, price) ==
  IF quantity * price >= 50000000 THEN FALSE
  ELSE IF symbol \in {} THEN FALSE
  ELSE TRUE

\* validate_compliance_rules: the restricted list is empty
validate_compliance_rules(symbol, quantity, price) ==
  IF quantity * price > 50000000 THEN FALSE
  ELSE IF symbol \in {} THEN FALSE
  ELSE TRUE

(***************************************************************************)
(* Risk service: endpoints                                                 *)
(***************************************************************************)
\* The comparisons the service makes on binary floating-point values.  Where
\* the decimal values compared are exactly equal, the rounding of the float
\* operations decides whether the left side comes out above the right; edge
\* says which way it went for this request.
FloatEdges == {"pnl_difference", "loss_percentage", "pnl_ratio"}
\* an amount in cents that a float holds exactly (a multiple of a quarter):
\* a quotient of two such amounts is the correctly rounded one, so at a ratio
\* of exactly 15% it compares equal to the literal 0.15
FloatExact(cents) == cents % 25 = 0

Exceeds(a, b, edge) == a > b \/ (a = b /\ edge)

\* the validator's cost-basis table
expected_cost_basis(symbol) ==
  CASE symbol = "AAPL" -> 16500
    [] symbol = "GOOGL" -> 13500
    [] symbol = "MSFT" -> 36000
    [] symbol = "AMZN" -> 14500
    [] symbol = "TSLA" -> 23000
    [] symbol = "META" -> 34000
    [] symbol = "NVDA" -> 47500
    [] OTHER -> 5000

\* fault: the expected PnL of a BUY has the sign of a SELL
expected_pnl_unsigned(symbol, quantity, price, order_type) ==
  (price - expected_cost_basis(symbol)) * quantity

expected_pnl(symbol, quantity, price, order_type) ==
  IF order_type = "BUY"
  THEN -((price - expected_cost_basis(symbol)) * quantity)
  ELSE (price - expected_cost_basis(symbol)) * quantity

RiskAssessment(rs) ==
  LET risk_level == determine_risk_level(rs.score)
  IN [risk_level |-> risk_level, approved |-> (risk_level # "HIGH"),
      risk_score |-> rs.score, risk_factors |-> rs.factors]

\* the try block of assess_risk: the HTTPException it raises, or the assessment.
\* req = [symbol, quantity, price, pnl, order_type]; fp \subseteq FloatEdges
assess_risk_checks(req, fp) ==
  LET position_value == Abs(req.quantity * req.price)
      absolute_pnl == Abs(req.pnl)
      pnl_difference ==
        Abs(expected_pnl(req.symbol, req.quantity, req.price, req.order_type) - req.pnl)
      ratio_exact == FloatExact(req.price) /\ FloatExact(req.pnl)
  IN IF ~validate_compliance_rules(req.symbol, req.quantity, req.price)
     THEN HttpError(403, "Compliance validation failed")
     ELSE IF Exceeds(pnl_difference, 10, "pnl_difference" \in fp)
     THEN HttpError(422, "PnL calculation mismatch")
     ELSE IF req.order_type = "SELL" /\ req.pnl < 0 /\ position_value = 0
     THEN HttpError(500, "ZeroDivisionError")
     ELSE IF req.order_type = "SELL" /\ req.pnl < 0
             /\ Exceeds(absolute_pnl * 20, 3 * position_value,
                        "loss_percentage" \in fp /\ ~ratio_exact)
     THEN HttpError(422, "Received invalid PnL data from pricing service")
     ELSE IF position_value > 0
             /\ Exceeds(absolute_pnl * 20, 3 * position_value,
                        "pnl_ratio" \in fp /\ ~ratio_exact)
     THEN HttpError(422, "PnL calculation integrity check failed")
     ELSE Ok(RiskAssessment(calculate_risk_score(req.symbol, req.quantity,
                                                 req.price, req.pnl)))

\* the except clause of assess_risk: every exception of the try block, the
\* HTTPExceptions it raised itself included, becomes a 500
assess_risk_except(raised) == HttpError(500, raised.detail)

\* POST /risk/assess
assess_risk(req, fp) ==
  LET r == assess_risk_checks(req, fp)
  IN IF r.status = 200 THEN r ELSE assess_risk_except(r)

\* fault: every escalation is auto-approved
escalate_to_risk_manager_lenient(risk_score) ==
  [escalated |-> TRUE, auto_approved |-> TRUE]

\* escalate_to_risk_manager
escalate_to_risk_manager(risk_score) == [escalated |-> TRUE, auto_approved |-> risk_score < 85000]

\* check_portfolio_impact: impact_pct in millionths of a percent
\* (position value in cents over a $1M portfolio)
check_portfolio_impact(quantity, price) ==
  [position_value |-> quantity * price, impact_pct |-> quantity * price]

\* POST /risk/escalate; data = [order_id, risk_score, risk_factors]
escalate_high_risk_order(data) ==
  LET escalation_result == escalate_to_risk_manager(data.risk_score)
      risk_factors == GetOr(data, "risk_factors", <<>>)
      quantity == GetOr(risk_factors, "quantity", 0)
      price == GetOr(risk_factors, "price", 0)
  IN Ok([escalation |-> escalation_result,
         portfolio_impact |-> check_portfolio_impact(quantity, price),
         auto_approved |-> escalation_result.auto_approved,
         manual_approval_required |-> FALSE])

AggregatePosition(symbol) ==
  CASE symbol = "AAPL" -> 50000
    [] symbol = "GOOGL" -> 30000
    [] symbol = "MSFT" -> 45000
    [] symbol = "AMZN" -> 25000
    [] symbol = "TSLA" -> 15000
    [] OTHER -> 0

check_aggregate_exposure(symbol, quantity) ==
  [within_limits |-> AggregatePosition(symbol) + quantity <= 100000,
   current_exposure |-> AggregatePosition(symbol),
   new_exposure |-> AggregatePosition(symbol) + quantity]

assess_regulatory_risk(symbol, quantity, price) ==
  LET requires_13f == quantity * price > 50000000
      requires_13d == quantity > 50000
  IN [is_compliant |-> ~requires_13f /\ ~requires_13d,
      requires_13f |-> requires_13f, requires_13d |-> requires_13d]

\* POST /risk/assess-institutional; data is the JSON object received
assess_institutional_risk(data) ==
  LET estimated_pnl == GetOr(data, "estimated_pnl", 0)
      rs == calculate_risk_score(data.symbol, data.quantity, data.price, estimated_pnl)
      aggregate_check == check_aggregate_exposure(data.symbol, data.quantity)
      regulatory_check == assess_regulatory_risk(data.symbol, data.quantity, data.price)
  IN Ok([approved |-> (rs.score <= 70000 /\ aggregate_check.within_limits
                        /\ regulatory_check.is_compliant),
         risk_score |-> rs.score,
         aggregate_exposure |-> aggregate_check,
         regulatory_compliance |-> regulatory_check,
         risk_factors |-> rs.factors])

\* verify_pre_trade_risk: quick_risk_score in thousandths
\* fault: a quick score of exactly 50 does not pass
verify_pre_trade_risk_exclusive(quantity, strategy_id) ==
  [passes |-> quantity * 5 < 50000, quick_risk_score |-> quantity * 5,
   strategy_id |-> strategy_id]

verify_pre_trade_risk(quantity, strategy_id) ==
  [passes |-> quantity * 5 <= 50000, quick_risk_score |-> quantity * 5,
   strategy_id |-> strategy_id]

check_strategy_correlation(strategy_id, symbol) ==
  [high_correlation |-> (strategy_id \in {"MOMENTUM_v2", "ARBITRAGE_v3"} /\ symbol = "TSLA")]

\* POST /risk/pre-trade-check
pre_trade_check(data) ==
  LET strategy_id == GetOr(data, "strategy_id", "MOMENTUM_v2")
      pre_trade_result == verify_pre_trade_risk(data.quantity, strategy_id)
      correlation_check == check_strategy_correlation(strategy_id, data.symbol)
  IN Ok([approved |-> (pre_trade_result.passes /\ ~correlation_check.high_correlation),
         quick_risk_score |-> pre_trade_result.quick_risk_score,
         strategy_id |-> strategy_id])

(***************************************************************************)
(* Orchestrator: state                                                     *)
(***************************************************************************)
VARIABLES
  saga,              \* per order id: the request and the locals of its handler
  client,            \* a caller of the risk service other than a saga
  deployment,        \* the capabilities served by a stand-in
  pricing_data,      \* pricing service store, by order id
  risk_assessments,  \* risk service store, by order id
  trades_db          \* trade service store, by order id

vars == <<saga, client, deployment, pricing_data, risk_assessments, trades_db>>

OrderIds == {"order-1"}

\* what a remote call meets: an answer, a timeout before the service handled
\* the request, a timeout after it did (late), or no connection
CallEnv == {"ok", "timeout", "late", "unreachable"}
Handled(env) == env \in {"ok", "late"}

\* call_service: the body returned, or the HTTPException raised
call_service(env, svc) ==
  IF env \in {"timeout", "late"}
  THEN [raised |-> TRUE, status_code |-> 504, detail |-> "Service timeout"]
  ELSE IF env = "unreachable"
  THEN [raised |-> TRUE, status_code |-> 500, detail |-> "Service call failed"]
  ELSE IF svc.status # 200
  THEN [raised |-> TRUE, status_code |-> svc.status, detail |-> svc.detail]
  ELSE [raised |-> FALSE, body |-> svc.body]

NewSaga(profile, symbol, quantity, order_type) ==
  [profile |-> profile, symbol |-> symbol, quantity |-> quantity,
   order_type |-> order_type, pc |-> "validate",
   trade_result |-> None, validation_price |-> None, pricing_result |-> None,
   risk_result |-> None, escalation_result |-> None, tax_result |-> None,
   execution_result |-> None, calls |-> <<>>, response |-> None]

Init ==
  /\ saga \in [OrderIds -> {NewSaga(p, y, q, t) :
                  p \in Profiles, y \in OrderSymbols, q \in OrderQuantities, t \in OrderTypes}
                \cup {NewSaga("Algorithmic", y, q, t) :
                  y \in OrderSymbols, q \in AlgoBreakerQuantities, t \in OrderTypes}]
  /\ client = None
  /\ deployment \in Deployments
  /\ pricing_data = [o \in OrderIds |-> None]
  /\ risk_assessments = [o \in OrderIds |-> None]
  /\ trades_db = [o \in OrderIds |-> None]

(***************************************************************************)
(* Orchestrator: responses                                                 *)
(***************************************************************************)
OrderResponse(status, message, details) ==
  [status |-> status, message |-> message, details |-> details]

Called(s, endpoint, data) ==
  [s EXCEPT !.calls = Append(@, [endpoint |-> endpoint, data |-> data])]

Return(s, response) == [s EXCEPT !.pc = "done", !.response = Some(response)]

PricingSection(pr) ==
  [execution_price |-> pr.price, estimated_pnl |-> pr.estimated_pnl,
   commission |-> pr.commission, base_amount |-> pr.base_amount]

\* fault: the failure is attributed by the results in the wrong order
FailureStage_reversed(trade_result, pricing_result, risk_result) ==
  IF risk_result = None THEN "risk_assessment"
  ELSE IF pricing_result = None THEN "pricing_calculation"
  ELSE IF trade_result = None THEN "validation"
  ELSE "execution"

\* the stage a failure is attributed to, from the results captured so far
FailureStage(trade_result, pricing_result, risk_result) ==
  IF trade_result = None THEN "validation"
  ELSE IF pricing_result = None THEN "pricing_calculation"
  ELSE IF risk_result = None THEN "risk_assessment"
  ELSE "execution"

FailureSection(stage, e) ==
  [stage |-> stage, message |-> e.detail, status_code |-> e.status_code]

\* place_order: except HTTPException
place_order_except(s, e) ==
  LET failure_stage == FailureStage(s.trade_result, s.pricing_result, s.risk_result)
      execution_flow ==
        (IF s.trade_result # None
         THEN "validation" :> [status |-> "passed",
                normalized_quantity |-> Get(s.trade_result).normalized_quantity,
                validation_price |-> s.validation_price]
         ELSE <<>>)
        @@ (IF s.pricing_result # None
            THEN "pricing_calculation" :> PricingSection(Get(s.pricing_result))
            ELSE <<>>)
        @@ (IF s.risk_result # None
            THEN "risk_assessment" :> [risk_level |-> Get(s.risk_result).risk_level,
                   risk_score |-> Get(s.risk_result).risk_score,
                   approved |-> Get(s.risk_result).approved]
            ELSE <<>>)
        @@ ("failure" :> FailureSection(failure_stage, e))
  IN Return(s, OrderResponse("FAILED", <<"Order failed at", failure_stage, e.detail>>,
                             "execution_flow" :> execution_flow))

\* fault: the error response carries the failure alone
build_error_response_bare(s, e) ==
  LET failure_stage == FailureStage(s.trade_result, s.pricing_result, s.risk_result)
  IN Return(s, OrderResponse("FAILED", <<"order failed at", failure_stage, e.detail>>,
                             "execution_flow" :> ("failure" :> FailureSection(failure_stage, e))))

\* build_error_response, used by the Institutional and Algorithmic workflows
build_error_response(s, e) ==
  LET failure_stage == FailureStage(s.trade_result, s.pricing_result, s.risk_result)
      execution_flow ==
        (IF s.trade_result # None
         THEN "validation" :> [status |-> "passed",
                normalized_quantity |-> Get(s.trade_result).normalized_quantity]
         ELSE <<>>)
        @@ (IF s.pricing_result # None
            THEN "pricing_calculation" :> PricingSection(Get(s.pricing_result))
            ELSE <<>>)
        @@ (IF s.risk_result # None
            THEN "risk_assessment" :> [risk_score |-> DictGet(Get(s.risk_result), "risk_score"),
                   approved |-> Get(s.risk_result).approved]
            ELSE <<>>)
        @@ ("failure" :> FailureSection(failure_stage, e))
  IN Return(s, OrderResponse("FAILED", <<"order failed at", failure_stage, e.detail>>,
                             "execution_flow" :> execution_flow))

\* place_order: except Exception.  An exception of the handler's own code is
\* answered with HTTP 500 and a detail: the reply is no OrderResponse, it has
\* no status (""), message or details
place_order_unexpected(s) ==
  Return(s, [status |-> "", message |-> <<>>, details |-> <<>>,
             http_error |-> <<500, "Order placement failed">>])

\* the handler of an HTTPException raised by a call, by workflow
OnException(s, e) ==
  IF s.profile = "Standard" THEN place_order_except(s, e) ELSE build_error_response(s, e)

(***************************************************************************)
(* Orchestrator: the workflows, one action per remote call                 *)
(***************************************************************************)
\* the quantity the workflow sends downstream after validation
actual_quantity(s) ==
  IF s.profile = "Algorithmic" THEN s.quantity
  ELSE GetOr(Get(s.trade_result), "normalized_quantity", s.quantity)

OrderData(s, quantity) ==
  [symbol |-> s.symbol, quantity |-> quantity, order_type |-> s.order_type]

\* fault: the rejection drops the reason of the validation
ValidationRejected_generic(s, body) ==
  OrderResponse("REJECTED", <<"Order rejected">>, <<>>)

\* Step 1: validation
ValidationRejected(s, body) ==
  IF s.profile = "Standard"
  THEN OrderResponse("REJECTED", <<body.reason>>,
         "execution_flow" :> ("validation" :> [status |-> "failed", reason |-> body.reason]))
  ELSE OrderResponse("REJECTED", <<body.reason>>, <<>>)

\* what the validation call depends on besides the order: the wall clock
\* (is_market_open) for the repository's service, the verdict and the lot
\* size for a stand-in
ValidationInputs ==
  IF "validation" \in deployment
  THEN {[valid |-> v, lot |-> l] : v \in BOOLEAN, l \in LotSizes}
  ELSE {[market_open |-> m] : m \in BOOLEAN}

Validate(o) ==
  /\ saga[o].pc = "validate"
  /\ \E env \in CallEnv, in \in ValidationInputs :
       LET s == saga[o]
           route == ProfileValidateRoute(s.profile)
           svc == IF "validation" \in deployment
                  THEN Ok(validate_interface(s.quantity, in.valid, in.lot))
                  ELSE IF route \notin RepoTradeRoutes
                  THEN HttpError(405, "Method Not Allowed")
                  ELSE Ok(validate_trade(s.symbol, s.quantity, s.order_type, in.market_open))
           r == call_service(env, svc)
           s1 == Called(s, route, OrderData(s, s.quantity))
       IN saga' = [saga EXCEPT ![o] =
            IF r.raised THEN OnException(s1, r)
            ELSE LET s2 == [s1 EXCEPT !.trade_result = Some(r.body)]
                 IN IF ~r.body.valid THEN Return(s2, ValidationRejected(s2, r.body))
                    ELSE [s2 EXCEPT !.pc = IF s.profile = "Standard"
                                           THEN "snapshot" ELSE "price"]]
  /\ UNCHANGED <<client, deployment, pricing_data, risk_assessments, trades_db>>

\* the pricing endpoint a workflow calls, and its answer
PricingRoute(profile) ==
  CASE profile = "Standard" -> "POST /pricing/calculate"
    [] profile = "Institutional" -> "POST /pricing/calculate-institutional"
    [] profile = "Algorithmic" -> "POST /pricing/algo-fast"

\* what a pricing call depends on besides the order: the variance drawn by
\* the repository's service, the quote of a stand-in
PricingInputs(symbol) ==
  IF "pricing" \in deployment
  THEN {[move |-> m, skew |-> k] : m \in StandInMoves, k \in PnlSkews}
  ELSE {[move |-> m] : m \in MarketMoves(symbol)}

PricingService(s, quantity, in) ==
  IF "pricing" \in deployment
  THEN price_interface(s.symbol, quantity, s.order_type, in.move, in.skew)
  ELSE CASE s.profile = "Standard" ->
              calculate_pricing(s.symbol, quantity, s.order_type, in.move)
         [] s.profile = "Institutional" ->
              calculate_institutional_pricing(s.symbol, quantity, s.order_type, in.move)
         [] s.profile = "Algorithmic" ->
              calculate_algo_pricing(s.symbol, quantity, s.order_type)

\* fault: the pricing service keeps one quote, whatever the order id
PricingStored_shared(o, s, env, svc) ==
  IF s.profile = "Standard" /\ "pricing" \notin deployment /\ Handled(env)
     /\ svc.status = 200
  THEN [q \in DOMAIN pricing_data |-> Some(svc.body)]
  ELSE pricing_data

\* calculate_pricing stores what it computed; the other pricing endpoints store nothing
PricingStored(o, s, env, svc) ==
  IF s.profile = "Standard" /\ "pricing" \notin deployment /\ Handled(env)
     /\ svc.status = 200
  THEN [pricing_data EXCEPT ![o] = Some(svc.body)]
  ELSE pricing_data

\* Step 1.5 of place_order: the validation price snapshot
SnapshotPrice(o) ==
  /\ saga[o].pc = "snapshot"
  /\ \E env \in CallEnv, in \in PricingInputs(saga[o].symbol) :
       LET s == saga[o]
           quantity == actual_quantity(s)
           svc == PricingService(s, quantity, in)
           r == call_service(env, svc)
           s1 == Called(s, PricingRoute(s.profile), OrderData(s, quantity))
       IN /\ saga' = [saga EXCEPT ![o] =
               IF r.raised THEN OnException(s1, r)
               ELSE [s1 EXCEPT !.validation_price = Some(r.body.price), !.pc = "price"]]
          /\ pricing_data' = PricingStored(o, s, env, svc)
  /\ UNCHANGED <<client, deployment, risk_assessments, trades_db>>

\* place_order: price_variance / validation_price divides by zero when the
\* snapshot price is 0
price_variance_raises(s) == s.profile = "Standard" /\ s.validation_price = Some(0)

\* Step 2: pricing
Price(o) ==
  /\ saga[o].pc = "price"
  /\ \E env \in CallEnv, in \in PricingInputs(saga[o].symbol) :
       LET s == saga[o]
           quantity == actual_quantity(s)
           svc == PricingService(s, quantity, in)
           r == call_service(env, svc)
           s1 == Called(s, PricingRoute(s.profile), OrderData(s, quantity))
           s2 == [s1 EXCEPT !.pricing_result = Some(r.body)]
       IN /\ saga' = [saga EXCEPT ![o] =
               IF r.raised THEN OnException(s1, r)
               ELSE IF price_variance_raises(s2) THEN place_order_unexpected(s2)
               ELSE [s2 EXCEPT !.pc = "risk"]]
          /\ pricing_data' = PricingStored(o, s, env, svc)
  /\ UNCHANGED <<client, deployment, risk_assessments, trades_db>>

\* Step 3: risk assessment
RiskRoute(profile) ==
  CASE profile = "Standard" -> "POST /risk/assess"
    [] profile = "Institutional" -> "POST /risk/assess-institutional"
    [] profile = "Algorithmic" -> "POST /risk/pre-trade-check"

\* the JSON object each workflow sends to its risk endpoint
RiskData(s) ==
  LET pr == Get(s.pricing_result)
  IN CASE s.profile = "Standard" ->
            [symbol |-> s.symbol, quantity |-> actual_quantity(s), price |-> pr.price,
             pnl |-> pr.estimated_pnl, order_type |-> s.order_type]
       [] s.profile = "Institutional" ->
            [symbol |-> s.symbol, quantity |-> actual_quantity(s), price |-> pr.price,
             pnl |-> pr.estimated_pnl, order_type |-> s.order_type,
             client_type |-> "institutional"]
       [] s.profile = "Algorithmic" ->
            [symbol |-> s.symbol, quantity |-> s.quantity, price |-> pr.price,
             strategy_id |-> "MOMENTUM_v2"]

RiskService(s, fp) ==
  CASE s.profile = "Standard" -> assess_risk(RiskData(s), fp)
    [] s.profile = "Institutional" -> assess_institutional_risk(RiskData(s))
    [] s.profile = "Algorithmic" -> pre_trade_check(RiskData(s))

StandardFlow(s) ==
  ("validation" :> [status |-> "passed", normalized_quantity |-> actual_quantity(s),
                    validation_price |-> s.validation_price])
  @@ ("pricing_calculation" :> PricingSection(Get(s.pricing_result)))
  @@ ("risk_assessment" :> Get(s.risk_result))

\* place_order: the risk call timed out (status 504)
RiskTimeoutResponse(s) ==
  OrderResponse("FAILED", <<"Risk assessment service timeout">>,
    "execution_flow" :>
      (("validation" :> [status |-> "passed", normalized_quantity |-> actual_quantity(s),
                         validation_price |-> s.validation_price])
       @@ ("pricing_calculation" :> PricingSection(Get(s.pricing_result)))
       @@ ("risk_assessment" :> [error |-> "timeout"])))

\* fault: the acceptability check of place_order left out
RiskGate_unchecked(s) == [s EXCEPT !.pc = "execute"]

\* place_order: "Check if risk is acceptable", then on to execution
\* fault: the gate lets every order through to execution
RiskGate_open(s) == [s EXCEPT !.pc = "execute"]

RiskGate(s) ==
  LET rr == Get(s.risk_result)
  IN IF GetOr(rr, "risk_level", "") = "HIGH" /\ DictGet(rr, "approved") = Some(FALSE)
     THEN Return(s, OrderResponse("REJECTED", <<"Order rejected due to high risk">>,
                                  "execution_flow" :> StandardFlow(s)))
     ELSE [s EXCEPT !.pc = "execute"]

\* fault: the tax analysis is triggered for every order at a loss
AfterEscalation_anyside(s) ==
  IF GetOr(Get(s.pricing_result), "estimated_pnl", 0) < 0
  THEN [s EXCEPT !.pc = "tax"]
  ELSE RiskGate(s)

\* place_order: the tax analysis is triggered for a SELL at a loss
AfterEscalation(s) ==
  IF s.order_type = "SELL" /\ GetOr(Get(s.pricing_result), "estimated_pnl", 0) < 0
  THEN [s EXCEPT !.pc = "tax"]
  ELSE RiskGate(s)

\* fault: the escalation is triggered from a score of 75 on
AfterRisk_inclusive(s) ==
  IF GetOr(Get(s.risk_result), "risk_score", 0) >= 75000
  THEN [s EXCEPT !.pc = "escalate"]
  ELSE AfterEscalation(s)

\* place_order: the escalation is triggered when risk_score > 75
AfterRisk(s) ==
  IF GetOr(Get(s.risk_result), "risk_score", 0) > 75000
  THEN [s EXCEPT !.pc = "escalate"]
  ELSE AfterEscalation(s)

\* the Institutional and Algorithmic workflows after their risk call
ApprovalGate(s) ==
  IF DictGet(Get(s.risk_result), "approved") # Some(TRUE)
  THEN Return(s, OrderResponse("REJECTED",
                   IF s.profile = "Institutional"
                   THEN <<"Institutional order rejected due to risk assessment">>
                   ELSE <<"Algo order rejected - circuit breaker triggered">>,
                   "risk" :> Get(s.risk_result)))
  ELSE [s EXCEPT !.pc = "execute"]

AssessRisk(o) ==
  /\ saga[o].pc = "risk"
  /\ \E env \in CallEnv, fp \in SUBSET FloatEdges :
       LET s == saga[o]
           svc == RiskService(s, fp)
           r == call_service(env, svc)
           s1 == Called(s, RiskRoute(s.profile), RiskData(s))
       IN /\ saga' = [saga EXCEPT ![o] =
               IF r.raised
               THEN IF s.profile = "Standard" /\ r.status_code = 504
                    THEN Return(s1, RiskTimeoutResponse(s1))
                    ELSE OnException(s1, r)
               ELSE LET s2 == [s1 EXCEPT !.risk_result = Some(r.body)]
                    IN IF s.profile = "Standard" THEN AfterRisk(s2) ELSE ApprovalGate(s2)]
          /\ risk_assessments' =
               IF s.profile = "Standard" /\ Handled(env) /\ svc.status = 200
               THEN [risk_assessments EXCEPT ![o] = Some(svc.body)]
               ELSE risk_assessments
  /\ UNCHANGED <<client, deployment, pricing_data, trades_db>>

\* the escalation sub-saga of place_order
Escalate(o) ==
  /\ saga[o].pc = "escalate"
  /\ \E env \in CallEnv :
       LET s == saga[o]
           rr == Get(s.risk_result)
           escalation_data == [risk_score |-> GetOr(rr, "risk_score", 0),
                               risk_factors |-> GetOr(rr, "risk_factors", <<>>)]
           r == call_service(env, escalate_high_risk_order(escalation_data))
           s1 == Called(s, "POST /risk/escalate", escalation_data)
       IN saga' = [saga EXCEPT ![o] =
            IF r.raised THEN OnException(s1, r)
            ELSE LET s2 == [s1 EXCEPT !.escalation_result = Some(r.body)]
                 IN IF DictGet(r.body, "auto_approved") # Some(TRUE)
                    THEN Return(s2, OrderResponse("PENDING_APPROVAL",
                           <<"Order requires manual approval due to extremely high risk">>,
                           ("escalation" :> r.body) @@ ("risk" :> rr)))
                    ELSE AfterEscalation(s2)]
  /\ UNCHANGED <<client, deployment, pricing_data, risk_assessments, trades_db>>

\* POST /pricing/tax-analysis; data = [symbol, pnl, quantity]
analyze_tax_implications(data) ==
  LET capital_loss == Abs(data.pnl)
  IN Ok([symbol |-> data.symbol, pnl |-> data.pnl,
         tax_calculation |-> [capital_loss |-> capital_loss,
                              estimated_tax_benefit |-> RoundDiv(capital_loss * 24, 100),
                              loss_type |-> IF data.quantity > 100 THEN "SHORT_TERM"
                                            ELSE "LONG_TERM"],
         wash_sale_check |-> [wash_sale_risk |-> FALSE],
         cost_basis_verification |-> [verified_cost_basis |-> get_cost_basis(data.symbol),
                                      accuracy_confirmed |-> TRUE],
         tax_benefit |-> RoundDiv(capital_loss * 24, 100)])

\* the tax-analysis sub-saga of place_order
TaxAnalysis(o) ==
  /\ saga[o].pc = "tax"
  /\ \E env \in CallEnv :
       LET s == saga[o]
           tax_data == [symbol |-> s.symbol, pnl |-> Get(s.pricing_result).estimated_pnl,
                        quantity |-> actual_quantity(s)]
           r == call_service(env, analyze_tax_implications(tax_data))
           s1 == Called(s, "POST /pricing/tax-analysis", tax_data)
       IN saga' = [saga EXCEPT ![o] =
            IF r.raised THEN OnException(s1, r)
            ELSE RiskGate([s1 EXCEPT !.tax_result = Some(r.body)])]
  /\ UNCHANGED <<client, deployment, pricing_data, risk_assessments, trades_db>>

\* POST /trades/execute: the record stored and returned
execute_trade(data) ==
  [symbol |-> data.symbol, quantity |-> data.quantity, price |-> data.price,
   order_type |-> data.order_type, status |-> "EXECUTED"]

\* the responses of the three workflows for an executed order
ExecutedResponse(s, execution_result) ==
  LET tr == Get(s.trade_result)
      pr == Get(s.pricing_result)
      rr == Get(s.risk_result)
      execution == "execution" :> [status |-> DictGet(execution_result, "status")]
  IN CASE s.profile = "Standard" ->
            OrderResponse("EXECUTED",
              <<"Order executed successfully", s.order_type, actual_quantity(s), s.symbol,
                pr.price>>,
              ("execution_flow" :> (StandardFlow(s) @@ execution))
              @@ ("summary" :> [symbol |-> s.symbol, order_type |-> s.order_type,
                                quantity |-> actual_quantity(s), price |-> pr.price,
                                estimated_pnl |-> pr.estimated_pnl,
                                risk_level |-> rr.risk_level]))
       [] s.profile = "Institutional" ->
            OrderResponse("EXECUTED", <<"Institutional order executed successfully">>,
              "execution_flow" :>
                (("validation" :> [status |-> "passed",
                                   normalized_quantity |-> actual_quantity(s)])
                 @@ ("pricing_calculation" :> pr)
                 @@ ("risk_assessment" :> [risk_score |-> rr.risk_score,
                        approved |-> rr.approved,
                        aggregate_exposure |-> rr.aggregate_exposure,
                        regulatory_compliance |-> rr.regulatory_compliance])
                 @@ execution))
       [] s.profile = "Algorithmic" ->
            OrderResponse("EXECUTED", <<"Algo order executed successfully">>,
              "execution_flow" :>
                (("validation" :> [status |-> "passed", strategy_id |-> "MOMENTUM_v2",
                                   normalized_quantity |-> DictGet(tr, "normalized_quantity")])
                 @@ ("pricing_calculation" :> [execution_price |-> pr.price,
                                               commission |-> pr.commission])
                 @@ ("risk_assessment" :> rr)
                 @@ execution))

\* Step 4: execution
Execute(o) ==
  /\ saga[o].pc = "execute"
  /\ \E env \in CallEnv :
       LET s == saga[o]
           execution_data == [symbol |-> s.symbol, quantity |-> actual_quantity(s),
                              price |-> Get(s.pricing_result).price,
                              order_type |-> s.order_type]
           svc == Ok(execute_trade(execution_data))
           r == call_service(env, svc)
           s1 == Called(s, "POST /trades/execute", execution_data)
       IN /\ saga' = [saga EXCEPT ![o] =
               IF r.raised THEN OnException(s1, r)
               ELSE LET s2 == [s1 EXCEPT !.execution_result = Some(r.body)]
                    IN Return(s2, ExecutedResponse(s2, r.body))]
          /\ trades_db' = IF Handled(env)
                          THEN [trades_db EXCEPT ![o] = Some(svc.body)]
                          ELSE trades_db
  /\ UNCHANGED <<client, deployment, pricing_data, risk_assessments>>

Next ==
  \E o \in OrderIds :
    \/ Validate(o)
    \/ SnapshotPrice(o)
    \/ Price(o)
    \/ AssessRisk(o)
    \/ Escalate(o)
    \/ TaxAnalysis(o)
    \/ Execute(o)

Spec == Init /\ [][Next]_vars

(***************************************************************************)
(* The risk service called directly                                        *)
(***************************************************************************)
\* the requests a caller of the risk service can make: RiskAssessmentRequest
\* takes any symbol, any integer quantity, a price > 0 and any pnl (cents)
ScoreSymbols == SupportedSymbols \cup {"XYZ"}
ScoreQuantities == {-10, 0, 100, 101, 200, 201, 500, 501, 3000}
ScorePrices == {1, 10000, 50000, 50001}
ScorePnls == {-500001, -500000, -100001, -100000, -1, 0, 1000000, 1000001}
\* how far the pnl of a request is from the validator's expected pnl (cents)
RequestSkews == {-11, -10, 0, 9, 10, 11}
LevelScores == {0, 39999, 40000, 40001, 69999, 70000, 70001, 100000}

ScoreCalls ==
  {[operation |-> "calculate_risk_score", symbol |-> y, quantity |-> q, price |-> p,
    pnl |-> l, reply |-> None] :
     y \in ScoreSymbols, q \in ScoreQuantities, p \in ScorePrices, l \in ScorePnls}

LevelCalls ==
  {[operation |-> "determine_risk_level", scores |-> <<a, b>>, reply |-> None] :
     a \in LevelScores, b \in LevelScores}

AssessCalls ==
  {[operation |-> "POST /risk/assess", order_id |-> o,
    data |-> [symbol |-> y, quantity |-> q, price |-> p, order_type |-> t,
              pnl |-> expected_pnl(y, q, p, t) + k],
    reply |-> None] :
     o \in OrderIds, y \in {"AAPL", "TSLA", "NVDA", "XYZ"}, q \in {0, 100, 1000, 1001},
     p \in {17550, 20000, 50000}, t \in OrderTypes, k \in RequestSkews}

\* requests to POST /risk/assess with the PnLs a caller may compute: by the
\* sign convention, with the sign reversed, off by 11 cents, and on a cost
\* basis 10.00 below the validator's (cents)
QuotedAssessCalls ==
  {[operation |-> "POST /risk/assess", order_id |-> o,
    data |-> [symbol |-> c.symbol, quantity |-> c.quantity, price |-> c.price,
              order_type |-> t,
              pnl |-> (IF t = "BUY" THEN -c.gain ELSE c.gain) * g + k],
    reply |-> None] :
     o \in OrderIds, t \in OrderTypes, g \in {1, -1}, k \in {0, 11},
     c \in {[symbol |-> "AAPL", quantity |-> 100, price |-> 17550, gain |-> 105000],
            [symbol |-> "XYZ", quantity |-> 100, price |-> 5500, gain |-> 50000],
            [symbol |-> "MSFT", quantity |-> 10, price |-> 37890, gain |-> 18900],
            [symbol |-> "MSFT", quantity |-> 10, price |-> 37890, gain |-> 28900]}}

\* requests to POST /risk/assess-institutional: the PnL under the key the
\* endpoint reads (estimated_pnl) or under the key the orchestrator sends (pnl)
InstitutionalCalls ==
  {[operation |-> "POST /risk/assess-institutional",
    data |-> [symbol |-> y, quantity |-> q, price |-> p, order_type |-> t] @@ (k :> l),
    reply |-> None] :
     y \in {"AAPL", "TSLA", "XYZ"}, q \in {100, 501, 2501, 50001},
     p \in {500, 10000, 20000},
     t \in OrderTypes, k \in {"estimated_pnl", "pnl"}, l \in {-200000, -1, 0}}

\* requests to POST /risk/assess whose PnL is at, just below and just above
\* 15% of the position value, as a gain and as a loss (cents)
RatioCalls ==
  {[operation |-> "POST /risk/assess", order_id |-> o,
    data |-> [symbol |-> "AAPL", quantity |-> c.quantity, price |-> c.price,
              order_type |-> t, pnl |-> g * ((c.quantity * c.price * 15) \div 100 + k)],
    reply |-> None] :
     o \in OrderIds, t \in OrderTypes, g \in {1, -1}, k \in {-4, 0, 5},
     c \in {[quantity |-> 6, price |-> 19410], [quantity |-> 25, price |-> 19412],
            [quantity |-> 35, price |-> 14348]}}

\* requests to POST /risk/escalate with scores around the auto-approval
\* threshold (thousandths of a point)
EscalateCalls ==
  {[operation |-> "POST /risk/escalate",
    data |-> [order_id |-> o, risk_score |-> c,
              risk_factors |-> [symbol |-> y, quantity |-> q, price |-> p]],
    reply |-> None] :
     o \in OrderIds, c \in {75001, 84999, 85000, 85001, 100000},
     y \in {"TSLA", "XYZ"}, q \in {100, 1000}, p \in {10000, 20000}}

\* requests to POST /pricing/calculate-institutional with quantities at and
\* just below the discount tiers, and the variance the service draws
InstitutionalPricingCalls ==
  UNION {{[operation |-> "POST /pricing/calculate-institutional",
           data |-> [symbol |-> y, quantity |-> q, order_type |-> t], move |-> m,
           reply |-> None] :
            q \in {100, 999, 1000, 4999, 5000, 9999, 10000}, t \in OrderTypes,
            m \in MarketMoves(y)} :
         y \in {"AAPL", "MSFT", "TSLA", "GME"}}

\* requests to the trade service: the body of tests/test_app.py sent to
\* /trades and to /trades/execute, and well-formed execution requests
TradeCalls ==
  {[operation |-> op,
    data |-> [trade_id |-> "test123", symbol |-> "AAPL", quantity |-> q,
              price |-> 15000, trade_type |-> "buy"],
    reply |-> None] :
     op \in {"POST /trades", "POST /trades/execute"}, q \in {10, 100}}
  \cup
  {[operation |-> op,
    data |-> [order_id |-> o, symbol |-> "AAPL", quantity |-> q,
              price |-> 15000, order_type |-> t],
    reply |-> None] :
     op \in {"POST /trades", "POST /trades/execute"}, o \in OrderIds,
     q \in {10, 100}, t \in OrderTypes}

\* two applications of calculate_risk_score that differ in the quantity only
QuantityPairs == {<<100, 101>>, <<101, 200>>, <<200, 201>>, <<500, 501>>}
ScorePairCalls ==
  {[operation |-> "calculate_risk_score twice", symbol |-> y, quantities |-> qq,
    price |-> p, pnl |-> l, reply |-> None] :
     y \in ScoreSymbols, qq \in QuantityPairs, p \in {1000, 10000}, l \in {-1, 0}}

InitRisk ==
  /\ saga = [o \in OrderIds |-> None]
  /\ client \in ScoreCalls \cup ScorePairCalls \cup LevelCalls \cup AssessCalls
                \cup QuotedAssessCalls \cup RatioCalls \cup InstitutionalCalls
                \cup EscalateCalls \cup InstitutionalPricingCalls \cup TradeCalls
  /\ deployment = {}
  /\ pricing_data = [o \in OrderIds |-> None]
  /\ risk_assessments = [o \in OrderIds |-> None]
  /\ trades_db = [o \in OrderIds |-> None]

CallRiskScore ==
  /\ client.operation = "calculate_risk_score" /\ client.reply = None
  /\ client' = [client EXCEPT !.reply =
       Some(calculate_risk_score(client.symbol, client.quantity, client.price, client.pnl))]
  /\ UNCHANGED <<saga, deployment, pricing_data, risk_assessments, trades_db>>

CallRiskScoreTwice ==
  /\ client.operation = "calculate_risk_score twice" /\ client.reply = None
  /\ client' = [client EXCEPT !.reply =
       Some(<<calculate_risk_score(client.symbol, client.quantities[1], client.price,
                                   client.pnl),
              calculate_risk_score(client.symbol, client.quantities[2], client.price,
                                   client.pnl)>>)]
  /\ UNCHANGED <<saga, deployment, pricing_data, risk_assessments, trades_db>>

CallRiskLevel ==
  /\ client.operation = "determine_risk_level" /\ client.reply = None
  /\ client' = [client EXCEPT !.reply =
       Some(<<determine_risk_level(client.scores[1]), determine_risk_level(client.scores[2])>>)]
  /\ UNCHANGED <<saga, deployment, pricing_data, risk_assessments, trades_db>>

\* assess_risk stores the assessment it returns under the order id
CallAssessRisk ==
  /\ client.operation = "POST /risk/assess" /\ client.reply = None
  /\ \E fp \in SUBSET FloatEdges :
       LET r == assess_risk(client.data, fp)
       IN /\ client' = [client EXCEPT !.reply = Some(r)]
          /\ risk_assessments' =
               IF r.status = 200
               THEN [risk_assessments EXCEPT ![client.order_id] = Some(r.body)]
               ELSE risk_assessments
  /\ UNCHANGED <<saga, deployment, pricing_data, trades_db>>

\* assess_institutional_risk returns its result and stores nothing
CallAssessInstitutional ==
  /\ client.operation = "POST /risk/assess-institutional" /\ client.reply = None
  /\ client' = [client EXCEPT !.reply = Some(assess_institutional_risk(client.data))]
  /\ UNCHANGED <<saga, deployment, pricing_data, risk_assessments, trades_db>>

\* escalate_high_risk_order returns its result and stores nothing
CallEscalate ==
  /\ client.operation = "POST /risk/escalate" /\ client.reply = None
  /\ client' = [client EXCEPT !.reply = Some(escalate_high_risk_order(client.data))]
  /\ UNCHANGED <<saga, deployment, pricing_data, risk_assessments, trades_db>>

\* calculate_institutional_pricing returns its result and stores nothing
CallInstitutionalPricing ==
  /\ client.operation = "POST /pricing/calculate-institutional" /\ client.reply = None
  /\ client' = [client EXCEPT !.reply =
       Some(calculate_institutional_pricing(client.data.symbol, client.data.quantity,
                                            client.data.order_type, client.move))]
  /\ UNCHANGED <<saga, deployment, pricing_data, risk_assessments, trades_db>>

\* the trade service answers a POST: a path with no POST route gets 405, a
\* body that is not a TradeExecutionRequest gets 422, an execution gets 200
TradeExecutionFields == {"order_id", "symbol", "quantity", "price", "order_type"}
trade_service(operation, data) ==
  IF operation \notin RepoTradeRoutes
  THEN HttpError(405, "Method Not Allowed")
  ELSE IF ~(TradeExecutionFields \subseteq DOMAIN data)
  THEN HttpError(422, "Unprocessable Entity")
  ELSE Ok(execute_trade(data))

\* execute_trade stores the trade it returns under the order id
CallTrade ==
  /\ client.operation \in {"POST /trades", "POST /trades/execute"}
  /\ client.reply = None
  /\ LET r == trade_service(client.operation, client.data)
     IN /\ client' = [client EXCEPT !.reply = Some(r)]
        /\ trades_db' =
             IF r.status = 200
             THEN [trades_db EXCEPT ![client.data.order_id] = Some(r.body)]
             ELSE trades_db
  /\ UNCHANGED <<saga, deployment, pricing_data, risk_assessments>>

NextRisk ==
  \/ CallTrade
  \/ CallInstitutionalPricing
  \/ CallRiskScore
  \/ CallRiskScoreTwice
  \/ CallRiskLevel
  \/ CallAssessRisk
  \/ CallAssessInstitutional
  \/ CallEscalate

SpecRisk == InitRisk /\ [][NextRisk]_vars

(***************************************************************************)
(* Two orders placed concurrently                                          *)
(***************************************************************************)
\* each request gets an order id of its own (uuid4)
PairIds == {"order-1", "order-2"}

\* the pairs of orders placed: two Standard orders on the repository's
\* services, a Standard and an Institutional order on stand-ins
PairRuns ==
  {[deployment |-> {},
    orders |-> ("order-1" :> NewSaga("Standard", "AAPL", 10, "SELL"))
               @@ ("order-2" :> NewSaga("Standard", "TSLA", 1000, "BUY"))],
   [deployment |-> {"validation", "pricing"},
    orders |-> ("order-1" :> NewSaga("Standard", "AAPL", 10, "SELL"))
               @@ ("order-2" :> NewSaga("Institutional", "AAPL", 1000, "BUY"))]}

InitPair ==
  /\ \E run \in PairRuns : saga = run.orders /\ deployment = run.deployment
  /\ client = None
  /\ pricing_data = [o \in PairIds |-> None]
  /\ risk_assessments = [o \in PairIds |-> None]
  /\ trades_db = [o \in PairIds |-> None]

\* the handlers of the two requests run interleaved, call by call
NextPair ==
  \E o \in PairIds :
    \/ Validate(o)
    \/ SnapshotPrice(o)
    \/ Price(o)
    \/ AssessRisk(o)
    \/ Escalate(o)
    \/ TaxAnalysis(o)
    \/ Execute(o)

SpecPair == InitPair /\ [][NextPair]_vars

(***************************************************************************)
(* Properties                                                              *)
(***************************************************************************)
CalledEndpoint(s, endpoints) ==
  \E i \in DOMAIN s.calls : s.calls[i].endpoint \in endpoints

ExecuteCalled(s) == CalledEndpoint(s, {"POST /trades/execute"})

PricingRoutes == {PricingRoute(p) : p \in Profiles}
RiskRoutes == {RiskRoute(p) : p \in Profiles}

Responded(s, status) == s.response # None /\ Get(s.response).status = status

\* the execution_flow of the response of a saga
Flow(s) == Get(s.response).details["execution_flow"]

\* C1: in every profile, a saga calls Execute or answers EXECUTED only if
\* the risk stage of the order returned an assessment with approved = true
C1_ExecutedOnlyIfApproved ==
  \A o \in OrderIds :
    LET s == saga[o]
    IN (ExecuteCalled(s) \/ Responded(s, "EXECUTED"))
         => /\ s.risk_result # None
            /\ DictGet(Get(s.risk_result), "approved") = Some(TRUE)

\* a Standard order executed on an approved assessment
C1_Witness ==
  \E o \in OrderIds :
    /\ saga[o].profile = "Standard"
    /\ Responded(saga[o], "EXECUTED")
    /\ Get(saga[o].risk_result).approved = TRUE

\* C2: in every profile, when validation answers valid = false the saga ends
\* REJECTED with the reason of the validation as its message, and the
\* validation call is the only call made for the order
C2_InvalidOrderRejected ==
  \A o \in OrderIds :
    LET s == saga[o]
    IN (s.trade_result # None /\ ~Get(s.trade_result).valid)
         => /\ s.pc = "done"
            /\ Responded(s, "REJECTED")
            /\ Get(s.response).message = <<Get(s.trade_result).reason>>
            /\ Len(s.calls) = 1
            /\ ~CalledEndpoint(s, PricingRoutes \cup RiskRoutes
                                    \cup {"POST /trades/execute"})

\* the repository's validation turned an order down
C2_Witness ==
  \E o \in OrderIds :
    /\ deployment = {}
    /\ saga[o].trade_result # None
    /\ ~Get(saga[o].trade_result).valid
    /\ Responded(saga[o], "REJECTED")

\* the saga ended on a failed call to one of the endpoints
FailedOn(s, endpoints) ==
  /\ s.pc = "done"
  /\ s.calls # <<>>
  /\ s.calls[Len(s.calls)].endpoint \in endpoints

\* C3: in every profile, a failed validation call ends the saga FAILED with
\* failure stage "validation"; a failed pricing call after a passed
\* validation ends it FAILED with failure stage "pricing_calculation", the
\* validation output in its execution_flow and no risk_assessment or
\* execution section
C3_FailureStageReported ==
  \A o \in OrderIds :
    LET s == saga[o]
    IN /\ (FailedOn(s, {ProfileValidateRoute(s.profile)}) /\ s.trade_result = None)
            => /\ Responded(s, "FAILED")
               /\ Flow(s)["failure"].stage = "validation"
       /\ (FailedOn(s, PricingRoutes) /\ s.pricing_result = None)
            => /\ Responded(s, "FAILED")
               /\ Flow(s)["failure"].stage = "pricing_calculation"
               /\ "validation" \in DOMAIN Flow(s)
               /\ Flow(s)["validation"].normalized_quantity
                    = Get(s.trade_result).normalized_quantity
               /\ "risk_assessment" \notin DOMAIN Flow(s)
               /\ "execution" \notin DOMAIN Flow(s)

\* a pricing call of an Institutional order failed after its validation passed
C3_Witness ==
  \E o \in OrderIds :
    /\ saga[o].profile = "Institutional"
    /\ FailedOn(saga[o], PricingRoutes)
    /\ saga[o].trade_result # None
    /\ saga[o].pricing_result = None
    /\ Responded(saga[o], "FAILED")

\* C4: in every profile the execution_flow of a FAILED response holds the
\* captured output of each of the stages validation, pricing_calculation and
\* risk_assessment that completed before the failure
C4_FailedKeepsCompletedStages ==
  \A o \in OrderIds :
    LET s == saga[o]
    IN Responded(s, "FAILED")
         => /\ s.trade_result # None
                 => /\ "validation" \in DOMAIN Flow(s)
                    /\ Flow(s)["validation"].normalized_quantity
                         = Get(s.trade_result).normalized_quantity
            /\ s.pricing_result # None
                 => /\ "pricing_calculation" \in DOMAIN Flow(s)
                    /\ Flow(s)["pricing_calculation"].execution_price
                         = Get(s.pricing_result).price
                    /\ Flow(s)["pricing_calculation"].estimated_pnl
                         = Get(s.pricing_result).estimated_pnl
            /\ s.risk_result # None
                 => /\ "risk_assessment" \in DOMAIN Flow(s)
                    /\ Flow(s)["risk_assessment"].approved
                         = Get(s.risk_result).approved

\* the execute call of an Algorithmic order failed after its three stages
C4_Witness ==
  \E o \in OrderIds :
    /\ saga[o].profile = "Algorithmic"
    /\ Responded(saga[o], "FAILED")
    /\ ExecuteCalled(saga[o])
    /\ saga[o].risk_result # None

\* the Standard saga has sent its pricing to the risk stage
RiskCalled(s) ==
  s.profile = "Standard" /\ s.pricing_result # None /\ CalledEndpoint(s, RiskRoutes)

\* how far the PnL sent to the risk stage is from the validator's expected PnL
PnlDifference(s) ==
  Abs(expected_pnl(s.symbol, actual_quantity(s), Get(s.pricing_result).price, s.order_type)
      - Get(s.pricing_result).estimated_pnl)

\* the reasons with which the risk stage turns a request down
ViolationDetails ==
  {"Compliance validation failed", "PnL calculation mismatch",
   "Received invalid PnL data from pricing service",
   "PnL calculation integrity check failed"}

\* the saga ended on the failure with this detail
FailedWith(s, details) ==
  /\ s.response # None
  /\ "execution_flow" \in DOMAIN Get(s.response).details
  /\ "failure" \in DOMAIN Flow(s)
  /\ Flow(s)["failure"].message \in details

C6_ViolationRejects ==
  \A o \in OrderIds :
    LET s == saga[o]
    IN FailedWith(s, ViolationDetails)
         => /\ Responded(s, "REJECTED")
            /\ ~ExecuteCalled(s)

\* the notional of a request to the risk service, in cents
Notional(data) == data.quantity * data.price

AssessReplied == client # None /\ client.operation = "POST /risk/assess"
                 /\ client.reply # None

\* C7: the Standard risk assessment checks compliance before anything else: a
\* request with a notional above 500,000 is turned down for compliance,
\* whatever its PnL, with no score or assessment returned or stored, and a
\* notional of exactly 500,000 is not turned down for compliance
C7_ComplianceBeforeScoring ==
  AssessReplied =>
    LET r == Get(client.reply)
    IN /\ Notional(client.data) > 50000000
            => /\ r.status # 200
               /\ r.detail = "Compliance validation failed"
               /\ risk_assessments[client.order_id] = None
       /\ Notional(client.data) <= 50000000
            => (r.status = 200 \/ r.detail # "Compliance validation failed")

\* a request of exactly 500,000 was scored, and its assessment stored
C7_Witness ==
  /\ AssessReplied
  /\ Notional(client.data) = 50000000
  /\ Get(client.reply).status = 200
  /\ risk_assessments[client.order_id] = Some(Get(client.reply).body)

\* the calls of a saga after its validation
DownstreamCalls(s) ==
  {i \in DOMAIN s.calls :
     s.calls[i].endpoint \in PricingRoutes \cup RiskRoutes \cup {"POST /trades/execute"}}

\* C8: in every profile the quantity sent to the Pricing, Risk and Execute
\* calls is the normalized_quantity the validation returned
C8_NormalizedQuantityDownstream ==
  \A o \in OrderIds :
    LET s == saga[o]
    IN \A i \in DownstreamCalls(s) :
         s.calls[i].data.quantity = Get(s.trade_result).normalized_quantity

ScoreReplied == client # None /\ client.operation = "calculate_risk_score"
                /\ client.reply # None

\* C9: for every symbol, quantity, price > 0 and PnL the score of the risk
\* scoring engine is between 0 and 100, also where an assessment carries it
C9_ScoreInRange ==
  /\ ScoreReplied
       => (Get(client.reply).score >= 0 /\ Get(client.reply).score <= 100000)
  /\ (AssessReplied /\ Get(client.reply).status = 200)
       => /\ Get(client.reply).body.risk_score >= 0
          /\ Get(client.reply).body.risk_score <= 100000

\* a raw score above 100 was clamped
C9_Witness ==
  /\ ScoreReplied
  /\ Get(client.reply).factors.risk_after_sector > 100000
  /\ Get(client.reply).score = 100000

LevelRank(level) ==
  CASE level = "LOW" -> 1 [] level = "MEDIUM" -> 2 [] level = "HIGH" -> 3

LevelReplied == client # None /\ client.operation = "determine_risk_level"
                /\ client.reply # None

\* C10: the level is HIGH from 70 on, MEDIUM from 40 up to 70 and LOW below
\* 40, and of two scores the higher never gets the lower level
C10_LevelMapping ==
  LevelReplied =>
    LET levels == Get(client.reply)
    IN /\ \A i \in {1, 2} :
            levels[i] = (IF client.scores[i] >= 70000 THEN "HIGH"
                         ELSE IF client.scores[i] >= 40000 THEN "MEDIUM"
                         ELSE "LOW")
       /\ client.scores[1] <= client.scores[2]
            => LevelRank(levels[1]) <= LevelRank(levels[2])

\* the scores 40 and 70 got the levels of the bands above them
C10_Witness ==
  /\ LevelReplied
  /\ client.scores = <<40000, 70000>>
  /\ Get(client.reply) = <<"MEDIUM", "HIGH">>

InstitutionalReplied == client # None /\ client.operation = "POST /risk/assess-institutional"
                        /\ client.reply # None

\* C11: in every assessment made with the scoring engine, by assess_risk and
\* by assess_institutional_risk, approved = true implies that the level of
\* the score is not HIGH, that is score < 70
C11_ApprovedImpliesNotHigh ==
  /\ (AssessReplied /\ Get(client.reply).status = 200 /\ Get(client.reply).body.approved)
       => /\ Get(client.reply).body.risk_score < 70000
          /\ determine_risk_level(Get(client.reply).body.risk_score) # "HIGH"
  /\ (InstitutionalReplied /\ Get(client.reply).body.approved)
       => /\ Get(client.reply).body.risk_score < 70000
          /\ determine_risk_level(Get(client.reply).body.risk_score) # "HIGH"

\* the quantity factor as the table of the scoring rules gives it
QuantityFactor(quantity) ==
  IF quantity > 500 THEN 20 ELSE IF quantity > 200 THEN 15
  ELSE IF quantity > 100 THEN 10 ELSE 5

ScoreTwiceReplied == client # None /\ client.operation = "calculate_risk_score twice"
                     /\ client.reply # None

\* C12: the quantity factor is 20 above 500, 15 above 200, 10 above 100 and
\* 5 otherwise, the boundaries strict; of two requests that differ in the
\* quantity only and fall in the same position-size tier, the one with the
\* higher quantity factor gets the higher score (below the cap of 100)
C12_QuantityFactor ==
  /\ ScoreReplied
       => Get(client.reply).factors.quantity_risk = QuantityFactor(client.quantity)
  /\ ScoreTwiceReplied
       => LET a == Get(client.reply)[1]
              b == Get(client.reply)[2]
          IN /\ a.factors.quantity_risk = QuantityFactor(client.quantities[1])
             /\ b.factors.quantity_risk = QuantityFactor(client.quantities[2])
             /\ (/\ a.factors.position_size_risk = b.factors.position_size_risk
                 /\ b.factors.risk_after_sector <= 100000)
                  => /\ b.factors.base_risk_score - a.factors.base_risk_score
                          = b.factors.quantity_risk - a.factors.quantity_risk
                     /\ (a.factors.quantity_risk < b.factors.quantity_risk
                           => a.score < b.score)
                     /\ (a.factors.quantity_risk = b.factors.quantity_risk
                           => a.score = b.score)

\* 100 and 101 shares of one symbol at one price and PnL: factors 5 and 10,
\* and the score of the second higher
C12_Witness ==
  /\ ScoreTwiceReplied
  /\ client.quantities = <<100, 101>>
  /\ Get(client.reply)[1].factors.quantity_risk = 5
  /\ Get(client.reply)[2].factors.quantity_risk = 10
  /\ Get(client.reply)[1].factors.position_size_risk
       = Get(client.reply)[2].factors.position_size_risk
  /\ Get(client.reply)[1].score < Get(client.reply)[2].score

\* the position-size and PnL factors as the tables of the scoring rules give
\* them, the amounts in cents
PositionFactor(notional) ==
  IF notional > 10000000 THEN 30 ELSE IF notional > 5000000 THEN 20
  ELSE IF notional > 1000000 THEN 10 ELSE 5

PnlFactor(pnl) ==
  IF pnl < -500000 THEN 30 ELSE IF pnl < -100000 THEN 20 ELSE IF pnl < 0 THEN 10
  ELSE IF pnl > 1000000 THEN 15 ELSE 5

\* C13: the base score is the sum of the position-size factor, the PnL factor
\* and the quantity factor, each as its table gives it (a PnL from 0 to
\* 10,000 scores 5), and lies between 15 and 80
C13_BaseScore ==
  ScoreReplied =>
    LET f == Get(client.reply).factors
    IN /\ f.position_size_risk = PositionFactor(client.quantity * client.price)
       /\ f.pnl_risk = PnlFactor(client.pnl)
       /\ f.quantity_risk = QuantityFactor(client.quantity)
       /\ f.base_risk_score = f.position_size_risk + f.pnl_risk + f.quantity_risk
       /\ f.base_risk_score >= 15
       /\ f.base_risk_score <= 80

\* a profit of exactly 10,000 scored 5, and the three lowest factors gave 15
C13_Witness ==
  /\ ScoreReplied
  /\ client.pnl = 1000000
  /\ Get(client.reply).factors.pnl_risk = 5
  /\ Get(client.reply).factors.base_risk_score = 15

\* the three highest factors gave 80
C13_WitnessMax ==
  /\ ScoreReplied
  /\ Get(client.reply).factors.base_risk_score = 80

\* C14: the final score is the base score times the volatility multiplier of
\* the symbol (1.0 to 2.5) times its sector multiplier (1.0 to 1.3), clamped
\* to 0..100; both multipliers are 1.0 for a symbol outside the tables
C14_FinalScore ==
  ScoreReplied =>
    LET f == Get(client.reply).factors
        volatility == calculate_volatility_multiplier(client.symbol)  \* tenths
        sector == SectorMultiplier(client.symbol)                      \* hundredths
        raw == f.base_risk_score * volatility * sector                 \* thousandths
    IN /\ volatility >= 10 /\ volatility <= 25
       /\ sector >= 100 /\ sector <= 130
       /\ client.symbol \notin SupportedSymbols => (volatility = 10 /\ sector = 100)
       /\ Get(client.reply).score
            = (IF raw > 100000 THEN 100000 ELSE IF raw < 0 THEN 0 ELSE raw)

\* TSLA, base score 15: 15 x 2.5 x 1.3 = 48.75, under the cap
C14_Witness ==
  /\ ScoreReplied
  /\ client.symbol = "TSLA"
  /\ Get(client.reply).factors.base_risk_score = 15
  /\ Get(client.reply).score = 48750

\* the cost basis table of the consistency rules, in cents
CanonicalCostBasis(symbol) ==
  CASE symbol = "AAPL" -> 16500 [] symbol = "GOOGL" -> 13500 [] symbol = "MSFT" -> 36000
    [] symbol = "AMZN" -> 14500 [] symbol = "TSLA" -> 23000 [] symbol = "META" -> 34000
    [] symbol = "NVDA" -> 47500 [] OTHER -> 5000

\* the PnL of the sign convention: -(price - cost_basis) x quantity for a
\* BUY, (price - cost_basis) x quantity for a SELL
ConventionPnl(symbol, quantity, price, order_type) ==
  IF order_type = "BUY" THEN -((price - CanonicalCostBasis(symbol)) * quantity)
  ELSE (price - CanonicalCostBasis(symbol)) * quantity

\* C15: the expected PnL of the consistency validator is the PnL of the sign
\* convention on its per-symbol cost basis (50.00 for an unknown symbol): a
\* request within the cap is turned down as a mismatch when its PnL is more
\* than 0.10 away from that value and not when it is less than 0.10 away
C15_ExpectedPnl ==
  (AssessReplied /\ Notional(client.data) <= 50000000) =>
    LET d == client.data
        difference == Abs(ConventionPnl(d.symbol, d.quantity, d.price, d.order_type) - d.pnl)
        r == Get(client.reply)
    IN /\ difference > 10
            => (r.status # 200 /\ r.detail = "PnL calculation mismatch")
       /\ difference < 10
            => (r.status = 200 \/ r.detail # "PnL calculation mismatch")

\* BUY 100 AAPL at 175.50 with a PnL of -1050.00 is assessed
C15_Witness ==
  /\ AssessReplied
  /\ client.data = [symbol |-> "AAPL", quantity |-> 100, price |-> 17550,
                    order_type |-> "BUY", pnl |-> -105000]
  /\ Get(client.reply).status = 200

\* C16: for every supported symbol, side, quantity >= 1 and quoted price the
\* estimated PnL of the repository's pricing service is within 0.10 of the
\* validator's expected PnL, and no Standard order is turned down by the
\* mismatch check
C16_PricingMatchesValidator ==
  \A o \in OrderIds :
    LET s == saga[o]
    IN (/\ s.profile = "Standard"
        /\ "pricing" \notin deployment
        /\ s.symbol \in SupportedSymbols
        /\ s.pricing_result # None
        /\ actual_quantity(s) >= 1)
         => /\ PnlDifference(s) <= 10
            /\ ~FailedWith(s, {"PnL calculation mismatch"})

\* C17: a Standard risk assessment whose request passes the compliance and
\* mismatch checks fails with a consistency violation and stores no
\* assessment when |PnL| is more than 15% of the notional, whatever the side
\* and the sign of the PnL, and is assessed when |PnL| is 15% of the notional
\* or less
C17_RatioCheck ==
  (/\ AssessReplied
   /\ Notional(client.data) > 0
   /\ Notional(client.data) <= 50000000
   /\ Abs(ConventionPnl(client.data.symbol, client.data.quantity, client.data.price,
                        client.data.order_type) - client.data.pnl) < 10) =>
    LET d == client.data
        r == Get(client.reply)
    IN /\ Abs(d.pnl) * 20 > 3 * Notional(d)
            => /\ r.status # 200
               /\ r.detail \in {"Received invalid PnL data from pricing service",
                                "PnL calculation integrity check failed"}
               /\ risk_assessments[client.order_id] = None
       /\ Abs(d.pnl) * 20 <= 3 * Notional(d) => r.status = 200

\* the escalation sub-saga of a saga was invoked, or is its next call
EscalationInvoked(s) == s.pc = "escalate" \/ CalledEndpoint(s, {"POST /risk/escalate"})

\* C18: the escalation sub-saga is invoked if and only if the saga runs the
\* Standard profile and its risk stage returned a score strictly greater
\* than 75; a score of exactly 75 does not escalate, and the Institutional and
\* Algorithmic flows never escalate
C18_EscalationIffAbove75 ==
  \A o \in OrderIds :
    LET s == saga[o]
    IN EscalationInvoked(s) <=>
         /\ s.profile = "Standard"
         /\ s.risk_result # None
         /\ Get(s.risk_result).risk_score > 75000

\* a Standard order scored above 75 was escalated
C18_Witness ==
  \E o \in OrderIds :
    /\ saga[o].profile = "Standard"
    /\ saga[o].risk_result # None
    /\ Get(saga[o].risk_result).risk_score > 75000
    /\ CalledEndpoint(saga[o], {"POST /risk/escalate"})

\* a Standard order scored exactly 75 reached the risk gate without an
\* escalation
C18_WitnessAt75 ==
  \E o \in OrderIds :
    /\ saga[o].profile = "Standard"
    /\ saga[o].risk_result # None
    /\ Get(saga[o].risk_result).risk_score = 75000
    /\ Responded(saga[o], "REJECTED")
    /\ ~CalledEndpoint(saga[o], {"POST /risk/escalate"})

\* an Institutional or Algorithmic order scored above 75 was answered
C18_WitnessOtherFlows ==
  \E o \in OrderIds :
    /\ saga[o].profile # "Standard"
    /\ saga[o].risk_result # None
    /\ Get(saga[o].risk_result).risk_score > 75000
    /\ saga[o].pc = "done"

C19_DirectEscalation ==
  (client # None /\ client.operation = "POST /risk/escalate" /\ client.reply # None) =>
    LET r == Get(client.reply)
    IN /\ r.status = 200
       /\ r.body.auto_approved = (client.data.risk_score < 85000)
       /\ r.body.escalation.auto_approved = r.body.auto_approved

\* an escalation of a score of exactly 85 was not auto-approved
C19_WitnessAt85 ==
  /\ client # None /\ client.operation = "POST /risk/escalate" /\ client.reply # None
  /\ client.data.risk_score = 85000
  /\ ~Get(client.reply).body.auto_approved

\* a Standard order scored between 75 and 85 was auto-approved and went on
C19_WitnessAutoApproved ==
  \E o \in OrderIds :
    /\ saga[o].escalation_result # None
    /\ Get(saga[o].escalation_result).auto_approved
    /\ Get(saga[o].risk_result).risk_score < 85000
    /\ saga[o].pc = "done"
    /\ saga[o].response # None

\* the tax-analysis sub-saga of a saga was invoked, or is its next call
TaxAnalysisInvoked(s) == s.pc = "tax" \/ CalledEndpoint(s, {"POST /pricing/tax-analysis"})

\* the escalation of a saga, if there was one, did not hold the order
NotHeld(s) ==
  \/ Get(s.risk_result).risk_score <= 75000
  \/ s.escalation_result # None /\ Get(s.escalation_result).auto_approved

C20_WitnessBuy ==
  \E o \in OrderIds :
    /\ saga[o].profile = "Standard"
    /\ saga[o].order_type = "BUY"
    /\ saga[o].risk_result # None
    /\ Get(saga[o].pricing_result).estimated_pnl < 0
    /\ saga[o].pc = "execute"

\* an Institutional or Algorithmic SELL quoted at a loss passed its risk
\* stage without a tax analysis
C20_WitnessOtherFlows ==
  \E o \in OrderIds :
    /\ saga[o].profile # "Standard"
    /\ saga[o].order_type = "SELL"
    /\ saga[o].risk_result # None
    /\ Get(saga[o].pricing_result).estimated_pnl < 0
    /\ saga[o].pc \in {"execute", "done"}

\* a Standard SELL at a loss was escalated, auto-approved, and then analysed
C20_WitnessAfterEscalation ==
  \E o \in OrderIds :
    /\ saga[o].escalation_result # None
    /\ saga[o].tax_result # None

\* the risk gate of place_order turns the order down
HighAndUnapproved(s) ==
  /\ GetOr(Get(s.risk_result), "risk_level", "") = "HIGH"
  /\ DictGet(Get(s.risk_result), "approved") = Some(FALSE)

CarriesTaxOutput(s) ==
  LET details == Get(s.response).details
      tax == Get(s.tax_result)
  IN \E k \in DOMAIN details :
       \/ details[k] = tax
       \/ k = "execution_flow" /\ \E j \in DOMAIN details[k] : details[k][j] = tax

C23_ResponseCarriesTrail ==
  \A o \in OrderIds :
    LET s == saga[o]
    IN s.response # None =>
         /\ Get(s.response).message # <<>>
         /\ "execution_flow" \in DOMAIN Get(s.response).details

Statuses == {"EXECUTED", "REJECTED", "FAILED", "PENDING_APPROVAL"}

StageRank(pc) ==
  CASE pc = "validate" -> 1 [] pc = "snapshot" -> 2 [] pc = "price" -> 3
    [] pc = "risk" -> 4 [] pc = "escalate" -> 5 [] pc = "tax" -> 6
    [] pc = "execute" -> 7 [] pc = "done" -> 8

\* every step of a saga takes it to a later stage, so a saga ends after at
\* most seven calls
C24_StepsAdvance ==
  [][\A o \in OrderIds :
       saga'[o] # saga[o] => StageRank(saga'[o].pc) > StageRank(saga[o].pc)]_vars

\* a saga that has not ended has a next step
C24_NeverStuck == \A o \in OrderIds : saga[o].pc # "done" => ENABLED Next

\* how many of the calls of a saga went to the endpoints
CallCount(s, endpoints) ==
  Cardinality({i \in DOMAIN s.calls : s.calls[i].endpoint \in endpoints})

ValidateRoutes == {ProfileValidateRoute(p) : p \in Profiles}

\* C25: within one saga each collaborator operation (validate, price, assess
\* risk, execute) is invoked at most once, so one pricing quote is produced
\* per order
C25_EachOperationAtMostOnce ==
  \A o \in OrderIds :
    LET s == saga[o]
    IN /\ CallCount(s, ValidateRoutes) <= 1
       /\ CallCount(s, PricingRoutes) <= 1
       /\ CallCount(s, RiskRoutes) <= 1
       /\ CallCount(s, {"POST /trades/execute"}) <= 1

\* what the three stores hold under an order id was computed for the order of
\* that id
OwnRecords(o) ==
  LET s == saga[o]
  IN /\ pricing_data[o] # None => Get(pricing_data[o]).symbol = s.symbol
     /\ risk_assessments[o] # None =>
          /\ s.pricing_result # None
          /\ Get(risk_assessments[o]).risk_factors.quantity = actual_quantity(s)
          /\ Get(risk_assessments[o]).risk_factors.position_value
               = actual_quantity(s) * Get(s.pricing_result).price
     /\ trades_db[o] # None =>
          /\ s.pricing_result # None
          /\ Get(trades_db[o]).symbol = s.symbol
          /\ Get(trades_db[o]).quantity = actual_quantity(s)
          /\ Get(trades_db[o]).order_type = s.order_type
          /\ Get(trades_db[o]).price = Get(s.pricing_result).price

\* the saga of the order or one of its stored records changes in the step
Touched(o) ==
  \/ saga'[o] # saga[o]
  \/ pricing_data'[o] # pricing_data[o]
  \/ risk_assessments'[o] # risk_assessments[o]
  \/ trades_db'[o] # trades_db[o]

DiscountTier(quantity) ==
  CASE quantity >= 10000 -> 5
    [] quantity >= 5000 /\ quantity < 10000 -> 3
    [] quantity >= 1000 /\ quantity < 5000 -> 1
    [] OTHER -> 0

InstitutionalPriced ==
  /\ client # None
  /\ client.operation = "POST /pricing/calculate-institutional"
  /\ client.reply # None
  /\ Get(client.reply).status = 200

\* C27: the institutional price is the market price less the discount of the
\* quantity's tier (0.5% from 10,000, 0.3% from 5,000, 0.1% from 1,000, none
\* below), rounded to the cent, and base amount, commission, total cost and
\* estimated PnL are all computed on the discounted price
C27_VolumeDiscount ==
  InstitutionalPriced =>
    LET d == client.data
        b == Get(client.reply).body
        commission == RoundDiv(d.quantity * b.price, 1000)
    IN /\ Abs(1000 * b.price - b.base_price * (1000 - DiscountTier(d.quantity))) <= 500
       /\ b.volume_discount = b.base_price - b.price
       /\ b.base_amount = d.quantity * b.price
       /\ b.total_cost = IF d.order_type = "BUY"
                         THEN b.base_amount + commission + d.quantity
                         ELSE b.base_amount - commission - d.quantity
       /\ b.estimated_pnl
            = calculate_estimated_pnl(d.symbol, d.quantity, b.price, d.order_type)

\* 5,000 AAPL at a market price of 175.50 are priced at 174.97
C27_Witness ==
  /\ InstitutionalPriced
  /\ client.data.symbol = "AAPL"
  /\ client.data.quantity = 5000
  /\ Get(client.reply).body.base_price = 17550
  /\ Get(client.reply).body.price = 17497

\* the regulatory flags of an institutional request: Form 13F for a notional
\* above $500,000, Form 13D for more than 50,000 shares
Requires13F(data) == Notional(data) > 50000000
Requires13D(data) == data.quantity > 50000

\* C28: in the institutional risk assessment a single regulatory flag does not
\* block: a request with exactly one of the flags 13F and 13D set, a score
\* that is not high and an aggregate exposure within limits is approved
C28_SingleFlagDoesNotBlock ==
  InstitutionalReplied =>
    LET b == Get(client.reply).body
    IN (/\ Requires13F(client.data) # Requires13D(client.data)
        /\ determine_risk_level(b.risk_score) # "HIGH"
        /\ b.aggregate_exposure.within_limits)
         => b.approved

\* m is the largest multiple of lot that does not exceed q
IsLotFloor(m, q, lot) == m % lot = 0 /\ m <= q /\ q - m < lot

\* the validation answer a saga holds comes from the trade service of the
\* repository and says valid
ValidatedByTradeService(s) ==
  /\ "validation" \notin deployment
  /\ s.trade_result # None
  /\ Get(s.trade_result).valid

C29_WitnessNoMetadata ==
  \E o \in OrderIds :
    /\ "validation" \notin deployment
    /\ ~HasMetadata(saga[o].symbol)
    /\ saga[o].trade_result # None
    /\ ~Get(saga[o].trade_result).valid
    /\ Get(saga[o].trade_result).normalized_quantity = saga[o].quantity

\* the request of tests/test_app.py test_create_trade
IsCreateTrade(c) ==
  /\ c.operation = "POST /trades"
  /\ DOMAIN c.data = {"trade_id", "symbol", "quantity", "price", "trade_type"}

\* C30: the trade service accepts direct creation of a trade: a POST to /trades
\* carrying trade id, symbol, quantity, price and trade type is answered with
\* status 201 Created
C30_CreateTradeReturns201 ==
  (client # None /\ IsCreateTrade(client) /\ client.reply # None)
    => Get(client.reply).status = 201

\* an order the repository's POST /trades/validate accepts while the market is
\* open, run against the repository's own services
WellFormedOnRepo(s) ==
  /\ deployment = {}
  /\ validate_trade(s.symbol, s.quantity, s.order_type, TRUE).valid

\* a saga on the repository's own services that answered EXECUTED
ExecutedOnRepo(profile) ==
  \E o \in OrderIds :
    /\ deployment = {}
    /\ saga[o].profile = profile
    /\ Responded(saga[o], "EXECUTED")

\* C31: for each of the three profiles a well-formed order run against the
\* repository's own services can reach EXECUTED; reaching it takes passing the
\* first stage, so the saga of a well-formed order that is about to validate
\* has a validation step after which it is still running
C31_EveryProfileCanExecute ==
  \A o \in OrderIds :
    (WellFormedOnRepo(saga[o]) /\ saga[o].pc = "validate")
      => ENABLED (Validate(o) /\ saga'[o].pc # "done")

\* on the repository's own services only the Standard profile answers EXECUTED
C31_OnlyStandardExecutes ==
  ~ExecutedOnRepo("Institutional") /\ ~ExecutedOnRepo("Algorithmic")

\* the PnL a request to the institutional assessment carries, under the key
\* the endpoint reads or under the key the orchestrator writes
SuppliedPnl(data) ==
  IF "estimated_pnl" \in DOMAIN data THEN data.estimated_pnl ELSE data.pnl

\* the supplied PnL is off the recomputed expected PnL by more than 0.10, or
\* its magnitude is above 15% of the notional (|pnl| * 20 > 3 * notional)
PnlInconsistent(data) ==
  LET l == SuppliedPnl(data)
  IN \/ Abs(expected_pnl(data.symbol, data.quantity, data.price, data.order_type) - l) > 10
     \/ (Abs(l) > 0 /\ Notional(data) <= (Abs(l) * 20 - 1) \div 3)

\* C32: in the Institutional flow, as in the Standard flow, a supplied PnL that
\* disagrees with the recomputed expected PnL by more than 0.10, or whose
\* magnitude exceeds 15% of notional, blocks execution: the institutional
\* assessment of such a request does not approve
C32_InstitutionalPnlChecked ==
  (InstitutionalReplied /\ PnlInconsistent(client.data))
    => ~Get(client.reply).body.approved

\* the request place_institutional_order builds: the quoted PnL travels under
\* the key "pnl"
FromInstitutionalSaga(data) == "pnl" \in DOMAIN data

\* C33: in the Institutional flow the PnL factor of the risk score is computed
\* from the estimated PnL of the order's quote: the assessment of a request
\* built by the Institutional saga reports the factor of the tier the quoted
\* PnL lies in
C33_PnlFactorFromQuote ==
  (InstitutionalReplied /\ FromInstitutionalSaga(client.data))
    => Get(client.reply).body.risk_factors.pnl_risk
         = calculate_pnl_risk_factor(client.data.pnl)

\* the same in the saga: the factor its risk result reports is the factor of
\* the PnL its pricing result quotes
C33_PnlFactorInSaga ==
  \A o \in OrderIds :
    LET s == saga[o]
    IN (s # None /\ s.profile = "Institutional" /\ s.risk_result # None)
         => Get(s.risk_result).risk_factors.pnl_risk
              = calculate_pnl_risk_factor(Get(s.pricing_result).estimated_pnl)

\* a Standard saga whose risk stage returned a score above 75
ScoredAbove75(s) ==
  /\ s.profile = "Standard"
  /\ s.risk_result # None
  /\ Get(s.risk_result).risk_score > 75000

\* the saga ended because its tax-analysis call failed
TaxAnalysisCallFailed(s) ==
  /\ Responded(s, "FAILED")
  /\ CalledEndpoint(s, {"POST /pricing/tax-analysis"})
  /\ s.tax_result = None

\* C34: in the Standard flow no order whose risk score exceeds 75 is executed:
\* it never reaches the Execute call or the status EXECUTED; once the
\* escalation has answered, a score of 85 or more ends PENDING_APPROVAL, and a
\* score between 75 and 85 is auto-approved by the escalation yet ends REJECTED
\* (short of a failure of the tax-analysis call, which ends FAILED)
C34_Above75NeverExecuted ==
  \A o \in OrderIds :
    LET s == saga[o]
    IN ScoredAbove75(s) =>
         /\ s.pc # "execute"
         /\ ~CalledEndpoint(s, {"POST /trades/execute"})
         /\ ~Responded(s, "EXECUTED")
         /\ (s.pc = "done" /\ s.escalation_result # None) =>
              IF Get(s.risk_result).risk_score >= 85000
              THEN Responded(s, "PENDING_APPROVAL")
              ELSE /\ DictGet(Get(s.escalation_result), "auto_approved") = Some(TRUE)
                   /\ Responded(s, "REJECTED") \/ TaxAnalysisCallFailed(s)

\* a score between 75 and 85: auto-approved, then rejected for high risk
C34_Witness ==
  \E o \in OrderIds :
    /\ ScoredAbove75(saga[o])
    /\ Get(saga[o].risk_result).risk_score < 85000
    /\ saga[o].escalation_result # None
    /\ DictGet(Get(saga[o].escalation_result), "auto_approved") = Some(TRUE)
    /\ Responded(saga[o], "REJECTED")

\* a score of 85 or more: held for manual approval
C34_WitnessHeld ==
  \E o \in OrderIds :
    /\ ScoredAbove75(saga[o])
    /\ Get(saga[o].risk_result).risk_score >= 85000
    /\ Responded(saga[o], "PENDING_APPROVAL")

\* a score between 75 and 85 passing through the tax analysis to the gate
C34_WitnessThroughTax ==
  \E o \in OrderIds :
    /\ ScoredAbove75(saga[o])
    /\ saga[o].tax_result # None
    /\ Responded(saga[o], "REJECTED")

\* the failure entry of a FAILED response, None when it has none
FailureEntry(s) ==
  IF /\ Responded(s, "FAILED")
     /\ "execution_flow" \in DOMAIN Get(s.response).details
     /\ "failure" \in DOMAIN Flow(s)
  THEN Some(Flow(s)["failure"])
  ELSE None

\* C35: a FAILED response names "execution" as the failure stage only if the
\* Execute call was attempted for the order; a failure of the escalation call
\* or of the tax-analysis call is not attributed to execution
C35_ExecutionBlamedOnlyIfAttempted ==
  \A o \in OrderIds :
    LET s == saga[o]
    IN (FailureEntry(s) # None /\ Get(FailureEntry(s)).stage = "execution")
         => CalledEndpoint(s, {"POST /trades/execute"})

\* C36: every FAILED response, in every profile and for every failing stage,
\* a timeout of the Standard risk stage included, identifies the failed stage
\* in a failure entry of its execution_flow (stage, message, status code)
C36_FailedHasFailureEntry ==
  \A o \in OrderIds :
    Responded(saga[o], "FAILED") =>
      /\ FailureEntry(saga[o]) # None
      /\ {"stage", "message", "status_code"} \subseteq DOMAIN Get(FailureEntry(saga[o]))

\* C37: a trade record with status EXECUTED exists in the trade store for an
\* order id only if the saga of that order returned EXECUTED; an order the
\* saga reports as FAILED at execution has no recorded trade
C37_TradeStoredOnlyIfExecuted ==
  \A o \in OrderIds :
    (saga[o] # None /\ saga[o].pc = "done"
       /\ trades_db[o] # None /\ Get(trades_db[o]).status = "EXECUTED")
      => Responded(saga[o], "EXECUTED")

\* C38: when the Escalation sub-saga runs for an order, its portfolio-impact
\* step reports impact_pct = (normalized quantity x quoted price) / 1,000,000
\* x 100 for that order (impact_pct is carried as the position value in cents,
\* that is in millionths of a percent)
C38_ImpactOfTheOrder ==
  \A o \in OrderIds :
    LET s == saga[o]
    IN (s # None /\ s.escalation_result # None)
         => Get(s.escalation_result).portfolio_impact.impact_pct
              = actual_quantity(s) * Get(s.pricing_result).price

\* a Standard SELL of TSLA or NVDA validated with a normalized quantity above
\* 200, priced by the repository's pricing service
LargeVolatileSale(s) ==
  /\ "pricing" \notin deployment
  /\ s.profile = "Standard" /\ s.order_type = "SELL"
  /\ s.symbol \in {"TSLA", "NVDA"}
  /\ s.trade_result # None
  /\ Get(s.trade_result).valid
  /\ Get(s.trade_result).normalized_quantity > 200

\* C39: in the Standard flow a SELL of TSLA or NVDA with normalized quantity
\* above 200 never obtains a quote: the commission is 2.5% of the proceeds,
\* the audit of the commission rate (0.5% within 0.1%) turns the cost breakdown
\* down, and the saga ends FAILED at pricing_calculation
C39_LargeVolatileSaleFailsPricing ==
  \A o \in OrderIds :
    LET s == saga[o]
    IN LargeVolatileSale(s) =>
         /\ s.validation_price = None /\ s.pricing_result = None
         /\ pricing_data[o] = None
         /\ s.pc \in {"snapshot", "done"}
         /\ s.pc = "done" =>
              /\ FailureEntry(s) # None
              /\ Get(FailureEntry(s)).stage = "pricing_calculation"

\* the pricing service answered the sale of 250 TSLA with its audit failure
C39_Witness ==
  \E o \in OrderIds :
    /\ LargeVolatileSale(saga[o])
    /\ deployment = {}
    /\ saga[o].symbol = "TSLA" /\ saga[o].quantity = 250
    /\ FailureEntry(saga[o]) # None
    /\ Get(FailureEntry(saga[o])).stage = "pricing_calculation"
    /\ Get(FailureEntry(saga[o])).status_code = 500
    /\ Get(FailureEntry(saga[o])).message = "Pricing calculation failed"

\* a sale of 100 TSLA is quoted
C39_WitnessSmallSale ==
  \E o \in OrderIds :
    /\ deployment = {}
    /\ saga[o].profile = "Standard" /\ saga[o].order_type = "SELL"
    /\ saga[o].symbol = "TSLA" /\ saga[o].quantity = 100
    /\ saga[o].pricing_result # None

\* an Algorithmic saga whose pre-trade check answered
PreTradeChecked(s) == s.profile = "Algorithmic" /\ s.risk_result # None

\* C40: the Algorithmic pre-trade check approves an order exactly when
\* quantity / 1000 x 5 <= 50 (quantity <= 10,000) and the symbol is not TSLA;
\* otherwise the Algorithmic saga ends REJECTED without calling Execute
C40_AlgoPreTradeCheck ==
  \A o \in OrderIds :
    LET s == saga[o]
    IN PreTradeChecked(s) =>
         /\ Get(s.risk_result).approved = (s.quantity <= 10000 /\ s.symbol # "TSLA")
         /\ ~Get(s.risk_result).approved =>
              /\ Responded(s, "REJECTED")
              /\ ~CalledEndpoint(s, {"POST /trades/execute"})
              /\ trades_db[o] = None

\* 10,001 shares of a symbol other than TSLA: rejected
C40_Witness ==
  \E o \in OrderIds :
    /\ PreTradeChecked(saga[o])
    /\ saga[o].quantity = 10001 /\ saga[o].symbol = "AAPL"
    /\ ~Get(saga[o].risk_result).approved
    /\ Responded(saga[o], "REJECTED")

\* 10,000 shares of a symbol other than TSLA: approved and executed
C40_WitnessAtLimit ==
  \E o \in OrderIds :
    /\ PreTradeChecked(saga[o])
    /\ saga[o].quantity = 10000 /\ saga[o].symbol = "AAPL"
    /\ Get(saga[o].risk_result).approved
    /\ Responded(saga[o], "EXECUTED")

\* a small TSLA order: rejected for correlation
C40_WitnessTsla ==
  \E o \in OrderIds :
    /\ PreTradeChecked(saga[o])
    /\ saga[o].quantity = 10 /\ saga[o].symbol = "TSLA"
    /\ ~Get(saga[o].risk_result).approved
    /\ Responded(saga[o], "REJECTED")

====
